---- MODULE Spec2Model ----
(***************************************************************************)
(* A model of the parseform library (github.com/404th/parseform).          *)
(*                                                                         *)
(* Strings are sequences of one-character strings, so that key parsing     *)
(* and value conversion are computed character by character, as the Go     *)
(* code and the strconv / regexp routines it calls compute them.           *)
(***************************************************************************)
EXTENDS Integers, Sequences, FiniteSets, TLC

(***************************************************************************)
(* Bounds of the model.                                                    *)
(***************************************************************************)
MaxPairs == 3        \* key=value pairs in one form body
MaxValLen == 5       \* length of a raw value given to convertValueToType
MaxKeyLen == 5       \* length of a raw key given to parseKeyStructure

(***************************************************************************)
(* Characters and strings.                                                 *)
(***************************************************************************)
Digits == {"0", "1", "2", "3", "4", "5", "6", "7", "8", "9"}

DigitVal(c) ==
  CASE c = "0" -> 0 [] c = "1" -> 1 [] c = "2" -> 2 [] c = "3" -> 3
    [] c = "4" -> 4 [] c = "5" -> 5 [] c = "6" -> 6 [] c = "7" -> 7
    [] c = "8" -> 8 [] c = "9" -> 9

DigitChar(d) ==
  CASE d = 0 -> "0" [] d = 1 -> "1" [] d = 2 -> "2" [] d = 3 -> "3"
    [] d = 4 -> "4" [] d = 5 -> "5" [] d = 6 -> "6" [] d = 7 -> "7"
    [] d = 8 -> "8" [] d = 9 -> "9"

\* All strings over the alphabet chars of length at most n.
RECURSIVE StringsUpTo(_, _)
StringsUpTo(chars, n) ==
  IF n = 0 THEN {<<>>}
  ELSE LET shorter == StringsUpTo(chars, n - 1)
       IN  shorter \cup {Append(s, c) : s \in shorter, c \in chars}

Contains(s, c) == \E i \in 1..Len(s) : s[i] = c

\* strings.Index for a one-character needle, 0-based, -1 when absent.
Index(s, c) ==
  IF Contains(s, c)
  THEN (CHOOSE i \in 1..Len(s) : s[i] = c /\ \A j \in 1..(i - 1) : s[j] # c) - 1
  ELSE -1

HasPrefix(s, p) == Len(s) >= Len(p) /\ SubSeq(s, 1, Len(p)) = p

IsDigits(s) == Len(s) > 0 /\ \A i \in 1..Len(s) : s[i] \in Digits

RECURSIVE DigitsVal(_)
DigitsVal(s) ==
  IF s = <<>> THEN 0
  ELSE DigitsVal(SubSeq(s, 1, Len(s) - 1)) * 10 + DigitVal(s[Len(s)])

HasSign(s) == Len(s) > 0 /\ s[1] \in {"+", "-"}
Unsigned(s) == IF HasSign(s) THEN Tail(s) ELSE s
Negative(s) == Len(s) > 0 /\ s[1] = "-"

\* fmt.Sprintf("%d", n)
RECURSIVE NatToStr(_)
NatToStr(n) ==
  IF n < 10 THEN <<DigitChar(n)>>
  ELSE Append(NatToStr(n \div 10), DigitChar(n % 10))

Sprintf_d(n) == IF n < 0 THEN <<"-">> \o NatToStr(-n) ELSE NatToStr(n)

(***************************************************************************)
(* strconv, as called by the parser.  A conversion is a pair: whether the  *)
(* call returns err == nil, and the value it returns then.                 *)
(*                                                                         *)
(* Atoi / ParseInt(s, 10, 64): an optional sign and one or more decimal    *)
(* digits.  The inputs of the model are too short to leave the 64-bit      *)
(* range, so the range error of these calls is not reachable here.         *)
(***************************************************************************)
AtoiOk(s) == IsDigits(Unsigned(s))
AtoiVal(s) == IF Negative(s) THEN -DigitsVal(Unsigned(s)) ELSE DigitsVal(Unsigned(s))

ParseIntOk(s) == IsDigits(Unsigned(s))
ParseIntVal(s) == IF Negative(s) THEN -DigitsVal(Unsigned(s)) ELSE DigitsVal(Unsigned(s))

\* ParseBool: the literal set of strconv.
TrueLiterals ==
  { <<"1">>, <<"t">>, <<"T">>, <<"T", "R", "U", "E">>,
    <<"t", "r", "u", "e">>, <<"T", "r", "u", "e">> }
FalseLiterals ==
  { <<"0">>, <<"f">>, <<"F">>, <<"F", "A", "L", "S", "E">>,
    <<"f", "a", "l", "s", "e">>, <<"F", "a", "l", "s", "e">> }
ParseBoolOk(s) == s \in TrueLiterals \cup FalseLiterals
ParseBoolVal(s) == s \in TrueLiterals

(***************************************************************************)
(* ParseFloat(s, 64).  Decimal grammar: an optional sign, digits with at   *)
(* most one point and at least one digit, an optional exponent (e or E,    *)
(* optional sign, one or more digits); or one of the special literals.     *)
(* Hexadecimal mantissas need a p exponent and digit separators need a     *)
(* base prefix; neither can be written in the alphabets of the model.      *)
(* A finite value is kept as mant * 10^exp with mant not divisible by 10.  *)
(***************************************************************************)
Lower(c) ==
  CASE c = "I" -> "i" [] c = "N" -> "n" [] c = "F" -> "f" [] c = "A" -> "a"
    [] c = "T" -> "t" [] c = "Y" -> "y" [] c = "E" -> "e" [] OTHER -> c

LowerStr(s) == [i \in 1..Len(s) |-> Lower(s[i])]

InfLiterals == { <<"i", "n", "f">>, <<"i", "n", "f", "i", "n", "i", "t", "y">> }

SpecialOk(s) ==
  \/ LowerStr(Unsigned(s)) \in InfLiterals
  \/ LowerStr(s) = <<"n", "a", "n">>

SpecialVal(s) ==
  IF LowerStr(s) = <<"n", "a", "n">> THEN "nan"
  ELSE IF Negative(s) THEN "-inf" ELSE "+inf"

\* Position (1-based) of the exponent marker in s, 0 when there is none.
ExpPos(s) ==
  IF \E i \in 1..Len(s) : Lower(s[i]) = "e"
  THEN CHOOSE i \in 1..Len(s) :
         Lower(s[i]) = "e" /\ \A j \in 1..(i - 1) : Lower(s[j]) # "e"
  ELSE 0

MantStr(s) ==
  LET u == Unsigned(s)
  IN  IF ExpPos(u) = 0 THEN u ELSE SubSeq(u, 1, ExpPos(u) - 1)

ExpStr(s) ==
  LET u == Unsigned(s)
  IN  IF ExpPos(u) = 0 THEN <<>> ELSE SubSeq(u, ExpPos(u) + 1, Len(u))

\* The mantissa without its point.
MantDigits(m) == SelectSeq(m, LAMBDA c : c # ".")

MantOk(m) ==
  /\ IsDigits(MantDigits(m))
  /\ Cardinality({i \in 1..Len(m) : m[i] = "."}) <= 1

\* Digits after the point.
FracLen(m) == IF Contains(m, ".") THEN Len(m) - (Index(m, ".") + 1) ELSE 0

FloatSyntaxOk(s) ==
  /\ MantOk(MantStr(s))
  /\ ExpPos(Unsigned(s)) # 0 => IsDigits(Unsigned(ExpStr(s)))

RECURSIVE StripZeros(_, _)
StripZeros(mant, exp) ==
  IF mant = 0 THEN <<0, 0>>
  ELSE IF mant % 10 = 0 THEN StripZeros(mant \div 10, exp + 1)
  ELSE <<mant, exp>>

\* <<mant, exp>> of a syntactically valid decimal float, sign left out.
FloatMagnitude(s) ==
  LET m == MantStr(s)
      e == IF ExpPos(Unsigned(s)) = 0 THEN 0 ELSE AtoiVal(ExpStr(s))
  IN  StripZeros(DigitsVal(MantDigits(m)), e - FracLen(m))

\* The largest finite float64 is 1.7976931348623157e308: a value whose
\* decimal exponent is above 308, or is 308 with leading digits above
\* 1.7976931, is out of range (ParseFloat returns ErrRange).
FloatMaxExp == 308
FloatMaxLead == 17976931

\* The first eight significant digits of n > 0 (exact for the mantissas
\* of up to eight digits that the model can write).
RECURSIVE PadTo8(_)
PadTo8(n) ==
  IF n >= 100000000 THEN PadTo8(n \div 10)
  ELSE IF n < 10000000 THEN PadTo8(n * 10)
  ELSE n

FloatInRange(s) ==
  LET me == FloatMagnitude(s)
      d  == Len(NatToStr(me[1])) - 1 + me[2]
  IN  \/ me[1] = 0
      \/ d < FloatMaxExp
      \/ d = FloatMaxExp /\ PadTo8(me[1]) <= FloatMaxLead

ParseFloatOk(s) ==
  \/ SpecialOk(s)
  \/ FloatSyntaxOk(s) /\ FloatInRange(s)

ParseFloatVal(s) ==
  IF SpecialOk(s)
  THEN [special |-> SpecialVal(s), mant |-> 0, exp |-> 0]
  ELSE LET me == FloatMagnitude(s)
       IN  [special |-> "none",
            mant |-> IF Negative(s) THEN -me[1] ELSE me[1],
            exp |-> me[2]]

(***************************************************************************)
(* Values of the generic output (interface{}).                             *)
(***************************************************************************)
NilV == [t |-> "nil"]
StrV(s) == [t |-> "string", s |-> s]
IntV(n) == [t |-> "int", n |-> n]
Int64V(n) == [t |-> "int64", n |-> n]
FloatV(f) == [t |-> "float64", f |-> f]
BoolV(b) == [t |-> "bool", b |-> b]
ArrV(a) == [t |-> "array", a |-> a]
ObjV(m) == [t |-> "object", m |-> m]
PanicV == [t |-> "panic"]

\* convertValueToType with the boolean conversion tried first.
convertValueToTypeBoolFirst(value) ==
  IF ParseBoolOk(value) THEN BoolV(ParseBoolVal(value))
  ELSE IF AtoiOk(value) THEN IntV(AtoiVal(value))
  ELSE IF ParseIntOk(value) THEN Int64V(ParseIntVal(value))
  ELSE IF ParseFloatOk(value) THEN FloatV(ParseFloatVal(value))
  ELSE StrV(value)

\* convertValueToType converts string values to their appropriate types
convertValueToType(value) ==
  IF AtoiOk(value) THEN IntV(AtoiVal(value))
  ELSE IF ParseIntOk(value) THEN Int64V(ParseIntVal(value))
  ELSE IF ParseFloatOk(value) THEN FloatV(ParseFloatVal(value))
  ELSE IF ParseBoolOk(value) THEN BoolV(ParseBoolVal(value))
  ELSE StrV(value)

(***************************************************************************)
(* parsedKey and keyGroup.                                                 *)
(***************************************************************************)
\* The zero parsedKey with its base key; panic marks a run-time panic of
\* parseKeyStructure instead of a returned value.
newParsedKey(baseKey) ==
  [panic |-> FALSE, baseKey |-> baseKey, isArray |-> FALSE, isNested |-> FALSE,
   arrayIndex |-> 0, path |-> <<>>]

PanicKey == [newParsedKey(<<>>) EXCEPT !.panic = TRUE]

\* &keyGroup{baseKey: ..., children: make(...), arrayData: make(...)}.
\* A nil map and an empty map read alike, so both are the empty function.
newKeyGroup(baseKey) ==
  [baseKey |-> baseKey, value |-> NilV, isSimple |-> FALSE, isArray |-> FALSE,
   isObject |-> FALSE, children |-> <<>>, arrayData |-> <<>>]

\* m[k] = v
Put(m, k, v) == (k :> v) @@ m

\* isNumeric checks if a string represents a number
isNumeric(s) == AtoiOk(s)

\* regexp `\[([^\]]+)\]`, FindAllStringSubmatch(s, -1): the contents of the
\* bracket groups of s, leftmost first, without overlap.  A match starts at
\* a "[" and runs to the first "]" after it, with at least one character
\* between them; the content may itself hold "[".
RECURSIVE FindAllStringSubmatch(_)
FindAllStringSubmatch(s) ==
  IF ~Contains(s, "[") THEN <<>>
  ELSE LET rest == SubSeq(s, Index(s, "[") + 2, Len(s))
           close == Index(rest, "]")
       IN  IF close = -1 THEN <<>>
           ELSE IF close = 0 THEN FindAllStringSubmatch(rest)
           ELSE <<SubSeq(rest, 1, close)>>
                  \o FindAllStringSubmatch(SubSeq(rest, close + 2, Len(rest)))

\* parseKeyStructure parses any key format dynamically
parseKeyStructure(key) ==
  IF ~Contains(key, "[") /\ ~Contains(key, "]")
  THEN newParsedKey(key)
  ELSE LET openBracket == Index(key, "[")
       IN  IF openBracket < 0
           THEN PanicKey               \* key[:-1]: slice bounds out of range
           ELSE LET baseKey == SubSeq(key, 1, openBracket)
                    matches == FindAllStringSubmatch(SubSeq(key, openBracket + 1, Len(key)))
                IN  IF Len(matches) = 0
                    THEN newParsedKey(baseKey)
                    ELSE IF isNumeric(matches[1])
                    THEN [newParsedKey(baseKey) EXCEPT
                            !.isArray = TRUE,
                            !.arrayIndex = AtoiVal(matches[1]),
                            !.path = Tail(matches)]
                    ELSE [newParsedKey(baseKey) EXCEPT
                            !.isNested = TRUE,
                            !.path = matches]

RECURSIVE addNestedToGroup(_, _, _)

\* addNestedToGroup storing a named child in a fresh children map, so that
\* the children stored before are lost.
addNestedToGroupFreshMap(group, path, value) ==
  IF Len(path) = 0
  THEN [group EXCEPT !.value = convertValueToType(value), !.isSimple = TRUE]
  ELSE LET currentKey == path[1]
           remainingPath == Tail(path)
       IN  IF isNumeric(currentKey)
           THEN LET index == AtoiVal(currentKey)
                    item == IF index \in DOMAIN group.arrayData
                            THEN group.arrayData[index]
                            ELSE newKeyGroup(currentKey)
                IN  [group EXCEPT !.arrayData =
                       Put(@, index,
                           addNestedToGroup([item EXCEPT !.isArray = TRUE],
                                            remainingPath, value))]
           ELSE LET child == IF currentKey \in DOMAIN group.children
                             THEN group.children[currentKey]
                             ELSE newKeyGroup(currentKey)
                IN  [group EXCEPT !.children =
                       Put(<<>>, currentKey,
                           IF Len(remainingPath) = 0
                           THEN [child EXCEPT !.value = convertValueToType(value),
                                              !.isSimple = TRUE]
                           ELSE addNestedToGroup(child, remainingPath, value))]

\* addNestedToGroup adds nested data to a group
addNestedToGroup(group, path, value) ==
  IF Len(path) = 0
  THEN [group EXCEPT !.value = convertValueToType(value), !.isSimple = TRUE]
  ELSE LET currentKey == path[1]
           remainingPath == Tail(path)
       IN  IF isNumeric(currentKey)
           THEN LET index == AtoiVal(currentKey)
                    item == IF index \in DOMAIN group.arrayData
                            THEN group.arrayData[index]
                            ELSE newKeyGroup(currentKey)
                IN  [group EXCEPT !.arrayData =
                       Put(@, index,
                           addNestedToGroup([item EXCEPT !.isArray = TRUE],
                                            remainingPath, value))]
           ELSE LET child == IF currentKey \in DOMAIN group.children
                             THEN group.children[currentKey]
                             ELSE newKeyGroup(currentKey)
                IN  [group EXCEPT !.children =
                       Put(@, currentKey,
                           IF Len(remainingPath) = 0
                           THEN [child EXCEPT !.value = convertValueToType(value),
                                              !.isSimple = TRUE]
                           ELSE addNestedToGroup(child, remainingPath, value))]

\* addToArrayGroup with a new item for every entry, in place of the item
\* that the index may already hold.
addToArrayGroupNewItem(group, parsed, value) ==
  LET arrayItem == newKeyGroup(Sprintf_d(parsed.arrayIndex))
  IN  [group EXCEPT !.arrayData =
         Put(@, parsed.arrayIndex,
             IF Len(parsed.path) = 0
             THEN [arrayItem EXCEPT !.value = StrV(value), !.isSimple = TRUE]
             ELSE addNestedToGroup(arrayItem, parsed.path, value))]

\* addToArrayGroup adds data to an array group
addToArrayGroup(group, parsed, value) ==
  LET arrayItem == IF parsed.arrayIndex \in DOMAIN group.arrayData
                   THEN group.arrayData[parsed.arrayIndex]
                   ELSE newKeyGroup(Sprintf_d(parsed.arrayIndex))
  IN  [group EXCEPT !.arrayData =
         Put(@, parsed.arrayIndex,
             IF Len(parsed.path) = 0
             THEN [arrayItem EXCEPT !.value = StrV(value), !.isSimple = TRUE]
             ELSE addNestedToGroup(arrayItem, parsed.path, value))]

\* addToObjectGroup adds data to an object group
addToObjectGroup(group, parsed, value) ==
  IF Len(parsed.path) = 0
  THEN [group EXCEPT !.value = StrV(value), !.isSimple = TRUE]
  ELSE addNestedToGroup(group, parsed.path, value)

\* The last value of a key instead of the first.
lastValue(valueSlice) == valueSlice[Len(valueSlice)]

\* The value of a key that the loops of groupKeysByStructure and
\* findFieldData read: valueSlice[0].
firstValue(valueSlice) == valueSlice[1]

\* Whether the iteration of the loop of groupKeysByStructure for the entry
\* (key, valueSlice) panics (in parseKeyStructure).
groupKeyPanics(key, valueSlice) ==
  Len(valueSlice) # 0 /\ parseKeyStructure(key).panic

\* One iteration of the loop of groupKeysByStructure, for the entry
\* (key, valueSlice) of the corpus: the groups after it.
groupKey(groups, key, valueSlice) ==
  IF Len(valueSlice) = 0 THEN groups
  ELSE LET value == firstValue(valueSlice)
           parsed == parseKeyStructure(key)
           group == IF parsed.baseKey \in DOMAIN groups
                    THEN groups[parsed.baseKey]
                    ELSE newKeyGroup(parsed.baseKey)
       IN  Put(groups, parsed.baseKey,
               IF parsed.isArray
               THEN addToArrayGroup([group EXCEPT !.isArray = TRUE], parsed, value)
               ELSE IF parsed.isNested
               THEN addToObjectGroup([group EXCEPT !.isObject = TRUE], parsed, value)
               ELSE [group EXCEPT !.isSimple = TRUE, !.value = StrV(value)])

(***************************************************************************)
(* Materialization of the groups into the generic value.                   *)
(***************************************************************************)
AbsentV == [t |-> "absent"]

Max(S) == CHOOSE m \in S : \A n \in S : n <= m

RECURSIVE buildArrayFromGroup(_)
RECURSIVE buildObjectFromGroup(_)

\* buildChild with the children looked at before the array data.
buildChildObjectFirst(child) ==
  IF child.isSimple THEN child.value
  ELSE IF DOMAIN child.children # {} \/ DOMAIN child.arrayData # {}
  THEN IF DOMAIN child.children # {}
       THEN buildObjectFromGroup(child)
       ELSE buildArrayFromGroup(child)
  ELSE AbsentV

\* buildChild with the scalar of a child looked at last, after its array
\* data and its children.
buildChildScalarLast(child) ==
  IF DOMAIN child.arrayData # {} THEN buildArrayFromGroup(child)
  ELSE IF DOMAIN child.children # {} THEN buildObjectFromGroup(child)
  ELSE IF child.isSimple THEN child.value
  ELSE AbsentV

\* The branch that buildArrayFromGroup and buildObjectFromGroup apply to
\* each child: its scalar if it has one, else its array data, else its
\* children; AbsentV when the child has none of them (nothing is stored).
buildChild(child) ==
  IF child.isSimple THEN child.value
  ELSE IF DOMAIN child.children # {} \/ DOMAIN child.arrayData # {}
  THEN IF DOMAIN child.arrayData # {}
       THEN buildArrayFromGroup(child)
       ELSE buildObjectFromGroup(child)
  ELSE AbsentV

\* buildArrayFromGroup appending the items in index order, without the
\* placeholders for the indices that were not supplied.
buildArrayFromGroupPacked(group) ==
  IF DOMAIN group.arrayData = {} THEN ArrV(<<>>)
  ELSE LET indices == DOMAIN group.arrayData
           built == [index \in indices |-> buildChild(group.arrayData[index])]
           nth(i) == CHOOSE index \in indices :
                       Cardinality({j \in indices : j < index}) = i - 1
       IN  IF \E index \in indices : built[index] = PanicV
           THEN PanicV
           ELSE ArrV([i \in 1..Cardinality(indices) |->
                        IF built[nth(i)] # AbsentV THEN built[nth(i)] ELSE NilV])

\* buildArrayFromGroup builds an array from a key group.  Storing at a
\* negative index panics (index out of range); a panic below propagates.
buildArrayFromGroup(group) ==
  IF DOMAIN group.arrayData = {} THEN ArrV(<<>>)
  ELSE LET maxIndex == Max({0} \cup DOMAIN group.arrayData)
           built == [index \in DOMAIN group.arrayData |->
                       buildChild(group.arrayData[index])]
       IN  IF \E index \in DOMAIN built :
                \/ built[index] = PanicV
                \/ built[index] # AbsentV /\ (index < 0 \/ index > maxIndex)
           THEN PanicV
           ELSE ArrV([i \in 1..(maxIndex + 1) |->
                        IF (i - 1) \in DOMAIN built /\ built[i - 1] # AbsentV
                        THEN built[i - 1]
                        ELSE NilV])

\* buildObjectFromGroup builds an object from a key group: the scalar under
\* "value", then the children, then the array data under decimal keys.
buildObjectFromGroup(group) ==
  LET simple == IF group.isSimple
                THEN (<<"v", "a", "l", "u", "e">> :> group.value) @@ <<>>
                ELSE <<>>
      kids == [key \in DOMAIN group.children |-> buildChild(group.children[key])]
      items == [key \in DOMAIN group.arrayData |-> buildChild(group.arrayData[key])]
      kidKeys == {key \in DOMAIN kids : kids[key] # AbsentV}
      itemKeys == {key \in DOMAIN items : items[key] # AbsentV}
      itemStr == [keyStr \in {Sprintf_d(key) : key \in itemKeys} |->
                    items[CHOOSE key \in itemKeys : Sprintf_d(key) = keyStr]]
  IN  IF (\E key \in kidKeys : kids[key] = PanicV)
         \/ (\E key \in itemKeys : items[key] = PanicV)
      THEN PanicV
      ELSE ObjV(itemStr @@ [key \in kidKeys |-> kids[key]] @@ simple)

\* buildGroup with the children of a group taken before its scalar.
buildGroupChildrenFirst(group) ==
  IF group.isArray THEN buildArrayFromGroup(group)
  ELSE IF group.isObject THEN buildObjectFromGroup(group)
  ELSE group.value

\* The loop of parseFormFlexibly: the value stored under one base key.
buildGroup(group) ==
  IF group.isSimple THEN group.value
  ELSE IF group.isArray THEN buildArrayFromGroup(group)
  ELSE buildObjectFromGroup(group)

parseFormFlexiblyPanics(groups) ==
  \E baseKey \in DOMAIN groups : buildGroup(groups[baseKey]) = PanicV

\* parseFormFlexibly, after groupKeysByStructure: the result map.
parseFormFlexibly(groups) ==
  [baseKey \in DOMAIN groups |-> buildGroup(groups[baseKey])]

(***************************************************************************)
(* Struct binding (ParseForm).  A destination type is described as         *)
(* reflect describes it: a kind, and for a struct its fields (Go           *)
(* identifier, form tag, empty when absent, and type), for a slice its     *)
(* element type, for a map its key and element types.                      *)
(***************************************************************************)
StringT == [kind |-> "string"]
IntT == [kind |-> "int"]
Int8T == [kind |-> "int8"]
BoolT == [kind |-> "bool"]
StructT(fields) == [kind |-> "struct", fields |-> fields]
SliceT(elem) == [kind |-> "slice", elem |-> elem]
MapT(key, elem) == [kind |-> "map", key |-> key, elem |-> elem]

S_id == <<"i", "d">>
S_account == <<"a", "c", "c", "o", "u", "n", "t">>
S_tags == <<"t", "a", "g", "s">>
S_leads == <<"l", "e", "a", "d", "s">>
S_attrs == <<"a", "t", "t", "r", "s">>
S_level == <<"l", "e", "v", "e", "l">>
S_Name == <<"N", "a", "m", "e">>
S_Email == <<"E", "m", "a", "i", "l">>
S_value == <<"v", "a", "l", "u", "e">>

\* Account and Lead of the README, cut down to their ID field.
AccountT == StructT(<< [name |-> <<"I", "D">>, tag |-> S_id, type |-> IntT] >>)
LeadT == StructT(<< [name |-> <<"I", "D">>, tag |-> S_id, type |-> IntT] >>)

\* The destination of the model.  Name and Age are the User struct of the
\* README with the tags shortened to the base keys a and b of the form
\* bodies; Email carries no tag; the other fields are the README's nested
\* struct (account[id]) and slices (tags[0], leads[0][id]), a field of one
\* of the narrower integer kinds it lists, and a map.
Schema ==
  << [name |-> S_Name,  tag |-> <<"a">>, type |-> StringT],
     [name |-> <<"A", "g", "e">>, tag |-> <<"b">>, type |-> IntT],
     [name |-> S_Email, tag |-> <<>>, type |-> StringT],
     [name |-> <<"L", "e", "v", "e", "l">>, tag |-> S_level, type |-> Int8T],
     [name |-> <<"A", "c", "c", "o", "u", "n", "t">>, tag |-> S_account,
      type |-> AccountT],
     [name |-> <<"T", "a", "g", "s">>, tag |-> S_tags, type |-> SliceT(StringT)],
     [name |-> <<"L", "e", "a", "d", "s">>, tag |-> S_leads,
      type |-> SliceT(LeadT)],
     [name |-> <<"A", "t", "t", "r", "s">>, tag |-> S_attrs,
      type |-> MapT(StringT, IntT)] >>

\* Values of the destination: scalars as in the generic output, with an
\* integer tagged by its kind, and struct, slice and map values.
IntKV(kind, n) == [t |-> kind, n |-> n]
StructV(f) == [t |-> "struct", f |-> f]
SliceV(a) == [t |-> "slice", a |-> a]
MapV(m) == [t |-> "map", m |-> m]

IntKinds == {"int", "int8", "int16", "int32", "int64"}
UintKinds == {"uint", "uint8", "uint16", "uint32", "uint64"}
FloatKinds == {"float32", "float64"}

\* reflect.Zero of a type (a nil slice has length 0, a nil map no entry).
RECURSIVE ZeroOf(_)
ZeroOf(type) ==
  CASE type.kind = "string" -> StrV(<<>>)
    [] type.kind \in IntKinds \cup UintKinds -> IntKV(type.kind, 0)
    [] type.kind \in FloatKinds -> FloatV(ParseFloatVal(<<"0">>))
    [] type.kind = "bool" -> BoolV(FALSE)
    [] type.kind = "struct" ->
         StructV([i \in 1..Len(type.fields) |-> ZeroOf(type.fields[i].type)])
    [] type.kind = "slice" -> SliceV(<<>>)
    [] type.kind = "map" -> MapV(<<>>)

ZeroTarget == [i \in 1..Len(Schema) |-> ZeroOf(Schema[i].type)]

\* reflect.Value.SetInt: the int64 is converted to the kind of the field,
\* which keeps its low bits.  The values of the model are far inside the
\* 32- and 64-bit ranges, where the conversion changes nothing.
SetInt(kind, x) ==
  LET low(w) == LET m == x % (2 ^ w)
                IN  IF m >= 2 ^ (w - 1) THEN m - 2 ^ w ELSE m
  IN  CASE kind = "int8" -> IntKV(kind, low(8))
        [] kind = "int16" -> IntKV(kind, low(16))
        [] OTHER -> IntKV(kind, x)

\* The field name whether or not the field has a form tag.
lookupNameIdentifier(f) == f.name

\* parseStruct, lines 82-86: the form tag or else the field name.
lookupName(f) == IF f.tag # <<>> THEN f.tag ELSE f.name

\* findFieldData: the entries <<nestedKey, value>> of the map it returns
\* (the empty set stands for nil).  Entries are written in the order of a
\* map iteration; when two keys give the same nestedKey either may
\* survive, so every entry of this set is a possible entry of the map.
findFieldData(vals, fieldName) ==
  { <<key, firstValue(vals[key])>> :
      key \in {k \in DOMAIN vals : Len(vals[k]) # 0 /\ k = fieldName} }
  \cup
  { <<SubSeq(key, Len(fieldName) + 2, Len(key)), firstValue(vals[key])>> :
      key \in {k \in DOMAIN vals :
                 /\ Len(vals[k]) # 0
                 /\ k # fieldName
                 /\ HasPrefix(k, Append(fieldName, "["))} }

\* The maps a sequence of writes m[k] = v in an unknown order can leave:
\* one of the written values under each written key.
MapsOf(entries) ==
  LET keys == {e[1] : e \in entries}
  IN  {m \in [keys -> {e[2] : e \in entries}] :
         \A k \in keys : <<k, m[k]>> \in entries}

HasSuffix(s, p) ==
  Len(s) >= Len(p) /\ SubSeq(s, Len(s) - Len(p) + 1, Len(s)) = p

TrimSuffix(s, p) ==
  IF HasSuffix(s, p) THEN SubSeq(s, 1, Len(s) - Len(p)) ELSE s

\* strings.Split for a one-character separator.
RECURSIVE Split(_, _)
Split(s, c) ==
  IF ~Contains(s, c) THEN <<s>>
  ELSE LET i == Index(s, c) + 1
       IN  <<SubSeq(s, 1, i - 1)>> \o Split(SubSeq(s, i + 1, Len(s)), c)

\* strings.Join for a one-character separator.
RECURSIVE Join(_, _)
Join(parts, c) ==
  IF parts = <<>> THEN <<>>
  ELSE IF Len(parts) = 1 THEN parts[1]
  ELSE parts[1] \o <<c>> \o Join(Tail(parts), c)

\* setValue: the value of a field of the given type after the call.
setValue(type, field, value) ==
  CASE type.kind = "string" -> StrV(value)
    [] type.kind \in IntKinds ->
         IF ParseIntOk(value) THEN SetInt(type.kind, ParseIntVal(value)) ELSE field
    [] type.kind \in UintKinds ->
         IF IsDigits(value) THEN IntKV(type.kind, DigitsVal(value)) ELSE field
    [] type.kind \in FloatKinds ->
         IF ParseFloatOk(value) THEN FloatV(ParseFloatVal(value)) ELSE field
    [] type.kind = "bool" ->
         IF ParseBoolOk(value) THEN BoolV(ParseBoolVal(value)) ELSE field
    [] OTHER -> field

\* parseStructFromMap on a new struct of the given type: each field is
\* looked up in fieldData under its tag or name.
parseStructFromMap(type, fieldData) ==
  StructV([i \in 1..Len(type.fields) |->
    LET f == type.fields[i]
    IN  IF lookupName(f) \in DOMAIN fieldData
        THEN setValue(f.type, ZeroOf(f.type), fieldData[lookupName(f)])
        ELSE ZeroOf(f.type)])

\* parseSlice: the values the field may hold after the call, PanicV when
\* the call panics.  indexedData is written in the order of a map
\* iteration, so two keys with the same index and nested key leave either
\* value.  slice.Index panics on a negative index, which passes the test
\* index < slice.Len().
parseSlice(type, field, fieldData) ==
  LET parts(key) == Split(key, "[")
      indexStr(key) == TrimSuffix(parts(key)[2], <<"]">>)
      nestedKey(key) == Join(SubSeq(parts(key), 3, Len(parts(key))), "[")
      indexed == {key \in DOMAIN fieldData :
                    /\ Contains(key, "[") /\ Contains(key, "]")
                    /\ Len(parts(key)) >= 2
                    /\ AtoiOk(indexStr(key))}
      writes == { << <<AtoiVal(indexStr(key)),
                       IF nestedKey(key) # <<>> THEN nestedKey(key) ELSE S_value>>,
                     fieldData[key] >> : key \in indexed }
      element(data) ==
        CASE type.elem.kind = "struct" -> parseStructFromMap(type.elem, data)
          [] type.elem.kind = "string" ->
               IF S_value \in DOMAIN data THEN StrV(data[S_value])
               ELSE ZeroOf(type.elem)
          [] type.elem.kind \in IntKinds ->
               IF S_value \in DOMAIN data /\ ParseIntOk(data[S_value])
               THEN SetInt(type.elem.kind, ParseIntVal(data[S_value]))
               ELSE ZeroOf(type.elem)
          [] OTHER -> ZeroOf(type.elem)
      build(indexedData) ==
        LET indices == {w[1] : w \in DOMAIN indexedData}
            maxIndex == Max(indices \cup {0})
            dataOf(i) == [nk \in {w[2] : w \in {v \in DOMAIN indexedData : v[1] = i}}
                            |-> indexedData[<<i, nk>>]]
        IN  IF indices = {} THEN field
            ELSE IF \E i \in indices : i < 0 THEN PanicV
            ELSE SliceV([j \in 1..(maxIndex + 1) |->
                           IF (j - 1) \in indices THEN element(dataOf(j - 1))
                           ELSE ZeroOf(type.elem)])
  IN  {build(indexedData) : indexedData \in MapsOf(writes)}

\* parseMap: the values the field may hold after the call.  setValue never
\* returns an error, so every entry of mapData is stored, under the key
\* and with the value that setValue left.
parseMap(type, field, fieldData, fieldName) ==
  LET mapData == {key \in DOMAIN fieldData :
                    /\ HasPrefix(key, Append(fieldName, "["))
                    /\ HasSuffix(key, <<"]">>)}
      mapKey(key) == SubSeq(key, Len(fieldName) + 2, Len(key) - 1)
      writes == { <<setValue(type.key, ZeroOf(type.key), mapKey(key)),
                    setValue(type.elem, ZeroOf(type.elem), fieldData[key])>> :
                  key \in mapData }
  IN  IF mapData = {} THEN {field}
      ELSE {MapV(m) : m \in MapsOf(writes)}

\* parseFieldValue: the values the field may hold after the call, PanicV
\* when the call panics.  For the scalar kinds the loop ranges over the
\* map in any order and stops at the first value that converts; no value
\* converting leaves the field.  The call returns nil on every path.
parseFieldValue(field, type, fieldData, fieldName) ==
  CASE type.kind = "string" -> {StrV(e[2]) : e \in fieldData}
    [] type.kind \in IntKinds ->
         IF \E e \in fieldData : ParseIntOk(e[2])
         THEN {SetInt(type.kind, ParseIntVal(e[2])) :
                 e \in {d \in fieldData : ParseIntOk(d[2])}}
         ELSE {field}
    [] type.kind \in UintKinds ->
         IF \E e \in fieldData : IsDigits(e[2])
         THEN {IntKV(type.kind, DigitsVal(e[2])) :
                 e \in {d \in fieldData : IsDigits(d[2])}}
         ELSE {field}
    [] type.kind \in FloatKinds ->
         IF \E e \in fieldData : ParseFloatOk(e[2])
         THEN {FloatV(ParseFloatVal(e[2])) :
                 e \in {d \in fieldData : ParseFloatOk(d[2])}}
         ELSE {field}
    [] type.kind = "bool" ->
         IF \E e \in fieldData : ParseBoolOk(e[2])
         THEN {BoolV(ParseBoolVal(e[2])) : e \in {d \in fieldData : ParseBoolOk(d[2])}}
         ELSE {field}
    [] type.kind = "struct" ->
         {parseStructFromMap(type, m) : m \in MapsOf(fieldData)}
    [] type.kind = "slice" ->
         UNION {parseSlice(type, field, m) : m \in MapsOf(fieldData)}
    [] type.kind = "map" ->
         UNION {parseMap(type, field, m, fieldName) : m \in MapsOf(fieldData)}
    [] OTHER -> {field}

\* The iteration of the loop of parseStruct with the field set to its
\* zero value when findFieldData returns nil.
parseStructFieldZeroing(vals, dest, i) ==
  LET fieldName == lookupName(Schema[i])
      fieldData == findFieldData(vals, fieldName)
  IN  IF fieldData = {} THEN {[dest EXCEPT ![i] = ZeroOf(Schema[i].type)]}
      ELSE {[dest EXCEPT ![i] = v] :
              v \in parseFieldValue(dest[i], Schema[i].type, fieldData, fieldName)}

\* One iteration of the loop of parseStruct, for field i: the values the
\* destination may hold after it; the field is PanicV when the iteration
\* panics.
parseStructField(vals, dest, i) ==
  LET fieldName == lookupName(Schema[i])
      fieldData == findFieldData(vals, fieldName)
  IN  IF fieldData = {} THEN {dest}
      ELSE {[dest EXCEPT ![i] = v] :
              v \in parseFieldValue(dest[i], Schema[i].type, fieldData, fieldName)}

(***************************************************************************)
(* net/url, as called by the parser, on the raw text of a form body.       *)
(***************************************************************************)
ErrV(msg) == [t |-> "error", msg |-> msg]

HexDigits == Digits \cup {"a", "b", "c", "d", "e", "f", "A", "B", "C", "D", "E", "F"}

\* The byte a percent escape stands for, for the escapes the inputs of the
\* model write; any other byte is kept as a character of its own.
UpperHex(c) ==
  CASE c = "a" -> "A" [] c = "b" -> "B" [] c = "c" -> "C"
    [] c = "d" -> "D" [] c = "e" -> "E" [] c = "f" -> "F" [] OTHER -> c

HexByte(h, l) ==
  LET hl == <<UpperHex(h), UpperHex(l)>>
  IN  CASE hl = <<"2", "0">> -> " "
        [] hl = <<"2", "5">> -> "%"
        [] hl = <<"2", "6">> -> "&"
        [] hl = <<"3", "D">> -> "="
        [] hl = <<"5", "B">> -> "["
        [] hl = <<"5", "D">> -> "]"
        [] hl = <<"0", "A">> -> "\n"
        [] OTHER -> "%" \o hl[1] \o hl[2]

\* url.QueryUnescape: err == nil iff every % is followed by two
\* hexadecimal digits.
QueryUnescapeOk(s) ==
  \A i \in 1..Len(s) :
    s[i] = "%" => /\ i + 2 <= Len(s)
                  /\ s[i + 1] \in HexDigits
                  /\ s[i + 2] \in HexDigits

\* url.QueryUnescape: the string it returns when err == nil.
RECURSIVE QueryUnescape(_)
QueryUnescape(s) ==
  IF s = <<>> THEN <<>>
  ELSE IF s[1] = "%"
       THEN <<HexByte(s[2], s[3])>> \o QueryUnescape(SubSeq(s, 4, Len(s)))
       ELSE IF s[1] = "+"
            THEN <<" ">> \o QueryUnescape(Tail(s))
            ELSE <<s[1]>> \o QueryUnescape(Tail(s))

\* strings.Cut for a one-character separator: <<before, after>>.
Cut(s, c) ==
  IF Contains(s, c)
  THEN <<SubSeq(s, 1, Index(s, c)), SubSeq(s, Index(s, c) + 2, Len(s))>>
  ELSE <<s, <<>> >>

\* url.ParseQuery: the Values and the error it returns.  A pair with a
\* semicolon or a bad escape is skipped and the first error is kept; the
\* pairs that decode are stored whether or not an error is returned.
RECURSIVE parseQuery(_, _, _)
parseQuery(m, err, query) ==
  IF query = <<>> THEN [values |-> m, err |-> err]
  ELSE LET pair == Cut(query, "&")[1]
           rest == Cut(query, "&")[2]
           key == Cut(pair, "=")[1]
           value == Cut(pair, "=")[2]
           first(e) == IF err = NilV THEN e ELSE err
       IN  IF Contains(pair, ";")
           THEN parseQuery(m, ErrV("invalid semicolon separator in query"), rest)
           ELSE IF pair = <<>> THEN parseQuery(m, err, rest)
           ELSE IF ~QueryUnescapeOk(key) \/ ~QueryUnescapeOk(value)
           THEN parseQuery(m, first(ErrV("invalid URL escape")), rest)
           ELSE LET k == QueryUnescape(key)
                    v == QueryUnescape(value)
                IN  parseQuery(IF k \in DOMAIN m
                               THEN [m EXCEPT ![k] = Append(@, v)]
                               ELSE Put(m, k, <<v>>),
                               err, rest)

\* url.ParseQuery that reports no error.
ParseQueryNoError(query) ==
  [values |-> parseQuery(<<>>, NilV, query).values, err |-> NilV]

ParseQuery(query) == parseQuery(<<>>, NilV, query)

(***************************************************************************)
(* The encoded front-ends: Unicode escapes and multi-line blocks.          *)
(***************************************************************************)
\* strings.Index for a needle of any length, 0-based, -1 when absent.
IndexStr(s, p) ==
  LET at == {i \in 1..(Len(s) - Len(p) + 1) : SubSeq(s, i, i + Len(p) - 1) = p}
  IN  IF at = {} THEN -1 ELSE (CHOOSE i \in at : \A j \in at : i <= j) - 1

ContainsStr(s, p) == IndexStr(s, p) >= 0

\* The Unicode escapes unescapeUnicode replaces, as the four characters
\* after \u00, and their replacements.
UnicodeEscapes ==
  (<<"2", "6">> :> "&") @@ (<<"2", "7">> :> "'") @@ (<<"2", "2">> :> "\"") @@
  (<<"3", "C">> :> "<") @@ (<<"3", "E">> :> ">") @@ (<<"2", "B">> :> "+") @@
  (<<"2", "0">> :> " ")

\* unescapeUnicode.  Every pattern is a backslash and five characters that
\* are not backslashes, and no replacement is a character of a pattern, so
\* the seven strings.ReplaceAll calls give in any order what one pass
\* from the left gives.
RECURSIVE unescapeUnicode(_)
unescapeUnicode(data) ==
  IF data = <<>> THEN <<>>
  ELSE IF /\ Len(data) >= 6
          /\ SubSeq(data, 1, 4) = <<"\\", "u", "0", "0">>
          /\ SubSeq(data, 5, 6) \in DOMAIN UnicodeEscapes
       THEN <<UnicodeEscapes[SubSeq(data, 5, 6)]>>
              \o unescapeUnicode(SubSeq(data, 7, Len(data)))
       ELSE <<data[1]>> \o unescapeUnicode(Tail(data))

\* The white space of strings.TrimSpace that a string of the model holds.
Space == {" ", "\n", "\t", "\r"}

RECURSIVE TrimLeft(_)
TrimLeft(s) == IF s # <<>> /\ s[1] \in Space THEN TrimLeft(Tail(s)) ELSE s

RECURSIVE TrimRight(_)
TrimRight(s) ==
  IF s # <<>> /\ s[Len(s)] \in Space
  THEN TrimRight(SubSeq(s, 1, Len(s) - 1)) ELSE s

TrimSpace(s) == TrimRight(TrimLeft(s))

S_eq == <<" ", "=", " ">>

\* strings.SplitN(line, " = ", 2)
SplitN2(line, sep) ==
  IF ContainsStr(line, sep)
  THEN << SubSeq(line, 1, IndexStr(line, sep)),
          SubSeq(line, IndexStr(line, sep) + Len(sep) + 1, Len(line)) >>
  ELSE <<line>>

\* The loop of convertMultiLineToForm: formParts for the given lines.
RECURSIVE formPartsOf(_)
formPartsOf(lines) ==
  IF lines = <<>> THEN <<>>
  ELSE LET line == TrimSpace(lines[1])
           parts == SplitN2(line, S_eq)
       IN  IF line # <<>> /\ Len(parts) = 2
           THEN <<TrimSpace(parts[1]) \o <<"=">> \o TrimSpace(parts[2])>>
                  \o formPartsOf(Tail(lines))
           ELSE formPartsOf(Tail(lines))

convertMultiLineToForm(multiLineData) ==
  Join(formPartsOf(Split(multiLineData, "\n")), "&")

normalizeFormData(data) ==
  IF Contains(data, "\n") /\ ContainsStr(data, S_eq)
  THEN convertMultiLineToForm(data)
  ELSE data

(***************************************************************************)
(* json.MarshalIndent(result, "", "  "), as FormToJSON calls it.           *)
(***************************************************************************)
\* The characters of the model in the order of their bytes.
Ascii ==
  << "\t", "\n", "\r", " ", "\"", "%", "&", "'", "+", "-", ".",
     "0", "1", "2", "3", "4", "5", "6", "7", "8", "9", ";", "<", "=", ">",
     "A", "B", "C", "D", "E", "F", "G", "H", "I", "J", "K", "L", "M", "N",
     "O", "P", "Q", "R", "S", "T", "U", "V", "W", "X", "Y", "Z",
     "[", "\\", "]", "_",
     "a", "b", "c", "d", "e", "f", "g", "h", "i", "j", "k", "l", "m", "n",
     "o", "p", "q", "r", "s", "t", "u", "v", "w", "x", "y", "z" >>

Ord(c) == CHOOSE i \in 1..Len(Ascii) : Ascii[i] = c

\* s < t in the byte order of Go strings.
RECURSIVE StrLess(_, _)
StrLess(s, t) ==
  IF t = <<>> THEN FALSE
  ELSE IF s = <<>> THEN TRUE
  ELSE IF s[1] = t[1] THEN StrLess(Tail(s), Tail(t))
  ELSE Ord(s[1]) < Ord(t[1])

\* The keys of a map in the order encoding/json writes them.
RECURSIVE SortedKeys(_)
SortedKeys(S) ==
  IF S = {} THEN <<>>
  ELSE LET k == CHOOSE k \in S : \A o \in S \ {k} : StrLess(k, o)
       IN  <<k>> \o SortedKeys(S \ {k})

\* A string literal of encoding/json, with its HTML escaping.
JSONChar(c) ==
  CASE c = "\"" -> <<"\\", "\"">>
    [] c = "\\" -> <<"\\", "\\">>
    [] c = "\n" -> <<"\\", "n">>
    [] c = "\r" -> <<"\\", "r">>
    [] c = "\t" -> <<"\\", "t">>
    [] c = "<" -> <<"\\", "u", "0", "0", "3", "c">>
    [] c = ">" -> <<"\\", "u", "0", "0", "3", "e">>
    [] c = "&" -> <<"\\", "u", "0", "0", "2", "6">>
    [] OTHER -> <<c>>

RECURSIVE JSONChars(_)
JSONChars(s) == IF s = <<>> THEN <<>> ELSE JSONChar(s[1]) \o JSONChars(Tail(s))

JSONString(s) == <<"\"">> \o JSONChars(s) \o <<"\"">>

Zeros(n) == [i \in 1..n |-> "0"]

\* A finite float64 as encoding/json writes it: the shortest digits that
\* give the value back, which for the short decimals of the model are the
\* digits of the mantissa; format f, or format e with the exponent cleaned
\* up (e-07 to e-7) when the value is below 1e-6 or at least 1e21.
JSONFloat(f) ==
  LET neg == f.mant < 0
      d == NatToStr(IF neg THEN -f.mant ELSE f.mant)
      n == Len(d)
      x == n - 1 + f.exp
      sign == IF neg THEN <<"-">> ELSE <<>>
      fixed == IF f.exp >= 0 THEN d \o Zeros(f.exp)
               ELSE IF n > -f.exp
                    THEN SubSeq(d, 1, n + f.exp) \o <<".">> \o SubSeq(d, n + f.exp + 1, n)
                    ELSE <<"0", ".">> \o Zeros(-f.exp - n) \o d
      mantissa == IF n = 1 THEN d ELSE <<d[1], ".">> \o Tail(d)
      ax == IF x < 0 THEN -x ELSE x
      expo == IF x < 0
              THEN <<"e", "-">> \o NatToStr(ax)
              ELSE <<"e", "+">> \o (IF ax < 10 THEN <<"0">> ELSE <<>>) \o NatToStr(ax)
  IN  IF f.mant = 0 THEN <<"0">>
      ELSE IF x < -6 \/ x >= 21 THEN sign \o mantissa \o expo
      ELSE sign \o fixed

\* json: unsupported value, for NaN and the infinities.
RECURSIVE MarshalOk(_)
MarshalOk(v) ==
  CASE v.t = "float64" -> v.f.special = "none"
    [] v.t = "array" -> \A i \in 1..Len(v.a) : MarshalOk(v.a[i])
    [] v.t = "object" -> \A k \in DOMAIN v.m : MarshalOk(v.m[k])
    [] OTHER -> TRUE

Indent(depth) == [i \in 1..(2 * depth) |-> " "]

RECURSIVE Marshal(_, _)
Marshal(v, depth) ==
  LET RECURSIVE items(_, _)
      items(a, i) ==
        IF i > Len(a) THEN <<>>
        ELSE <<"\n">> \o Indent(depth + 1) \o Marshal(a[i], depth + 1)
               \o (IF i < Len(a) THEN <<",">> ELSE <<>>) \o items(a, i + 1)
      RECURSIVE members(_, _)
      members(keys, i) ==
        IF i > Len(keys) THEN <<>>
        ELSE <<"\n">> \o Indent(depth + 1) \o JSONString(keys[i]) \o <<":", " ">>
               \o Marshal(v.m[keys[i]], depth + 1)
               \o (IF i < Len(keys) THEN <<",">> ELSE <<>>) \o members(keys, i + 1)
  IN  CASE v.t = "nil" -> <<"n", "u", "l", "l">>
        [] v.t = "string" -> JSONString(v.s)
        [] v.t \in {"int", "int64"} -> Sprintf_d(v.n)
        [] v.t = "float64" -> JSONFloat(v.f)
        [] v.t = "bool" -> IF v.b THEN <<"t", "r", "u", "e">>
                           ELSE <<"f", "a", "l", "s", "e">>
        [] v.t = "array" ->
             IF v.a = <<>> THEN <<"[", "]">>
             ELSE <<"[">> \o items(v.a, 1) \o <<"\n">> \o Indent(depth) \o <<"]">>
        [] v.t = "object" ->
             IF DOMAIN v.m = {} THEN <<"{", "}">>
             ELSE <<"{">> \o members(SortedKeys(DOMAIN v.m), 1)
                    \o <<"\n">> \o Indent(depth) \o <<"}">>

MarshalIndent(result) == Marshal(ObjV(result), 0)

(***************************************************************************)
(* The state machine.                                                      *)
(***************************************************************************)
VARIABLES
  pc,       \* position of the call in progress
  call,     \* the entry point that was called
  values,   \* url.Values: raw key -> sequence of values
  pending,  \* keys the loop of groupKeysByStructure has still to visit
  groups,   \* map[string]*keyGroup, base key -> group
  result,   \* the map FormToMap returns
  target,   \* the destination struct of ParseForm, field index -> value;
            \* one cell for an argument that is no pointer to a struct
  fld,      \* index of the field parseStruct visits next
  arg,      \* argument of the call: a raw form body, or the string given
            \* to a pure function
  ret,      \* the error url.ParseQuery returned and then the error the
            \* call returned, or what a pure function returned
  other     \* a second call on the same Parser, suspended: its pc, call,
            \* values, ... ret; NilV when there is no second call

vars == <<pc, call, values, pending, groups, result, target, fld, arg, ret,
          other>>

\* Raw keys of the form bodies the model decodes.
KeyPool ==
  { <<"a">>, <<"b">>,
    <<"a", "[", "b", "]">>,
    <<"a", "[", "b", "]", "[", "c", "]">>,
    <<"a", "[", "b", "]", "[", "1", "]">>,
    <<"a", "[", "0", "]">>,
    <<"a", "[", "3", "]">>,
    <<"a", "[", "0", "0", "]">>,
    <<"a", "[", "-", "1", "]">>,
    <<"a", "[", "0", "]", "[", "b", "]">>,
    <<"a", "[", "0", "]", "[", "c", "]">>,
    <<"a", "[", "1", "]", "[", "b", "]">>,
    <<"a", "[", "0", "]", "[", "b", "]", "[", "1", "]">>,
    <<"a", "[">>, <<"a", "]">>, <<"a", "[", "]">> }

\* Raw values of the form bodies the model decodes.
ValuePool == { <<"1">>, <<"x">> }

NumPairs(vals) ==
  LET RECURSIVE Sum(_)
      Sum(S) == IF S = {} THEN 0
                ELSE LET k == CHOOSE k \in S : TRUE
                     IN  Len(vals[k]) + Sum(S \ {k})
  IN  Sum(DOMAIN vals)

Init ==
  /\ pc = "decode"
  /\ call = "none"
  /\ values = <<>>
  /\ pending = {}
  /\ groups = <<>>
  /\ result = <<>>
  /\ target = ZeroTarget
  /\ fld = 0
  /\ arg = <<>>
  /\ ret = NilV
  /\ other = NilV

\* url.ParseQuery, one key=value pair of the body: m[key] = append(m[key], value)
ParseQueryPair ==
  /\ pc = "decode"
  /\ NumPairs(values) < MaxPairs
  /\ \E key \in KeyPool, value \in ValuePool :
       values' = IF key \in DOMAIN values
                 THEN [values EXCEPT ![key] = Append(@, value)]
                 ELSE Put(values, key, <<value>>)
  /\ UNCHANGED <<pc, call, pending, groups, result, target, fld, arg, ret, other>>

\* FormToMap, after url.ParseQuery returned values and ret (its err); the
\* call may be the one FormToMapEncoded makes.
FormToMap ==
  /\ pc = "decode"
  /\ call \in {"none", "FormToMapEncoded"}
  /\ call' = IF call = "none" THEN "FormToMap" ELSE call
  /\ IF ret # NilV
     THEN /\ pc' = "error"
          /\ ret' = ErrV("failed to parse form data")
          /\ UNCHANGED pending
     ELSE /\ pc' = "group"
          /\ pending' = DOMAIN values
          /\ UNCHANGED ret
  /\ UNCHANGED <<values, groups, result, target, fld, arg, other>>

\* groupKeysByStructure: one iteration of `for key, valueSlice := range values`
groupKeysByStructure ==
  /\ pc = "group"
  /\ \E key \in pending :
       IF groupKeyPanics(key, values[key])
       THEN /\ pc' = "panic"
            /\ UNCHANGED <<pending, groups>>
       ELSE /\ groups' = groupKey(groups, key, values[key])
            /\ pending' = pending \ {key}
            /\ pc' = pc
  /\ UNCHANGED <<call, values, result, target, fld, arg, ret, other>>

\* parseFormFlexibly after the grouping, and the return of FormToMap
FormToMapReturn ==
  /\ pc = "group"
  /\ call \in {"FormToMap", "FormToMapEncoded"}
  /\ pending = {}
  /\ IF parseFormFlexiblyPanics(groups)
     THEN pc' = "panic" /\ UNCHANGED result
     ELSE pc' = "done" /\ result' = parseFormFlexibly(groups)
  /\ UNCHANGED <<call, values, pending, groups, target, fld, arg, ret, other>>

\* Arguments of ParseForm that are not a pointer to a struct, held in
\* target as one cell: a nil pointer, a struct passed by value, and a
\* pointer to a value that is not a struct.
NilPointer == << [t |-> "nilptr"] >>
NonPointer(v) == << [t |-> "value", v |-> v] >>
PointerTo(v) == << [t |-> "ptr", v |-> v] >>

\* parseIntoStruct up to its call of parseStruct: the error it returns for
\* the argument tgt, NilV when it goes on to parseStruct.
parseIntoStructError(tgt) ==
  IF tgt[1].t \in {"nilptr", "value"}
  THEN ErrV("target must be a non-nil pointer to struct")
  ELSE IF tgt[1].t = "ptr"
  THEN ErrV("target must be a pointer to struct")
  ELSE NilV

\* ParseForm returning nil for an argument parseIntoStruct rejects.
ParseFormNoTargetCheck ==
  /\ pc = "decode"
  /\ call = "none"
  /\ call' = "ParseForm"
  /\ IF ret # NilV
     THEN /\ pc' = "error"
          /\ ret' = ErrV("failed to parse form data")
          /\ UNCHANGED fld
     ELSE IF parseIntoStructError(target) # NilV
     THEN /\ pc' = "done"
          /\ UNCHANGED <<ret, fld>>
     ELSE /\ pc' = "bind"
          /\ fld' = 1
          /\ UNCHANGED ret
  /\ UNCHANGED <<values, pending, groups, result, target, arg, other>>

\* ParseForm with the argument target, after url.ParseQuery returned
\* values and ret (its err), and parseIntoStruct up to its call of
\* parseStruct
ParseForm ==
  /\ pc = "decode"
  /\ call = "none"
  /\ call' = "ParseForm"
  /\ IF ret # NilV
     THEN /\ pc' = "error"
          /\ ret' = ErrV("failed to parse form data")
          /\ UNCHANGED fld
     ELSE IF parseIntoStructError(target) # NilV
     THEN /\ pc' = "error"
          /\ ret' = parseIntoStructError(target)
          /\ UNCHANGED fld
     ELSE /\ pc' = "bind"
          /\ fld' = 1
          /\ UNCHANGED ret
  /\ UNCHANGED <<values, pending, groups, result, target, arg, other>>

\* parseStruct: one iteration of the loop over the fields
parseStruct ==
  /\ pc = "bind"
  /\ \E dest \in parseStructField(values, target, fld) :
       IF dest[fld] = PanicV
       THEN /\ pc' = "panic"
            /\ UNCHANGED <<target, fld>>
       ELSE /\ target' = dest
            /\ fld' = fld + 1
            /\ pc' = IF fld = Len(Schema) THEN "done" ELSE "bind"
  /\ UNCHANGED <<call, values, pending, groups, result, arg, ret, other>>

Next ==
  \/ ParseQueryPair
  \/ FormToMap
  \/ groupKeysByStructure
  \/ FormToMapReturn
  \/ ParseForm
  \/ parseStruct

Spec == Init /\ [][Next]_vars

(***************************************************************************)
(* Direct calls of the pure functions, on every string of a small          *)
(* alphabet up to a length bound.                                          *)
(***************************************************************************)
KeyChars == {"a", "[", "]", "1", "-"}
ValChars == {"0", "1", "9", "-", ".", "e", "t", "x"}

InitPure(fn, args) ==
  /\ pc = "call"
  /\ call = fn
  /\ arg \in args
  /\ ret = NilV
  /\ values = <<>>
  /\ pending = {}
  /\ groups = <<>>
  /\ result = <<>>
  /\ target = ZeroTarget
  /\ fld = 0
  /\ other = NilV

InitKey == InitPure("parseKeyStructure", StringsUpTo(KeyChars, MaxKeyLen))

\* p.parseKeyStructure(key)
parseKeyStructureCall ==
  /\ pc = "call"
  /\ call = "parseKeyStructure"
  /\ ret' = parseKeyStructure(arg)
  /\ pc' = "returned"
  /\ UNCHANGED <<call, values, pending, groups, result, target, fld, arg, other>>

SpecKey == InitKey /\ [][parseKeyStructureCall]_vars

InitCoerce == InitPure("convertValueToType", StringsUpTo(ValChars, MaxValLen))

\* p.convertValueToType(value)
convertValueToTypeCall ==
  /\ pc = "call"
  /\ call = "convertValueToType"
  /\ ret' = convertValueToType(arg)
  /\ pc' = "returned"
  /\ UNCHANGED <<call, values, pending, groups, result, target, fld, arg, other>>

SpecCoerce == InitCoerce /\ [][convertValueToTypeCall]_vars

(***************************************************************************)
(* Calls on the raw text of a form body.  A body is a list of pairs of a   *)
(* pool, joined with &; the pairs of a body are taken in the order of the  *)
(* pool.                                                                   *)
(***************************************************************************)
MaxBindPairs == 2    \* pairs in one raw form body given to ParseForm

\* The increasing sequences of at most k indices out of 1..n.
RECURSIVE IncSeqs(_, _)
IncSeqs(n, k) ==
  IF k = 0 THEN {<<>>}
  ELSE LET shorter == IncSeqs(n, k - 1)
       IN  shorter \cup
           {Append(p[1], p[2]) :
              p \in {q \in shorter \X (1..n) :
                       q[1] = <<>> \/ q[2] > q[1][Len(q[1])]}}

Bodies(pairs, k) ==
  {Join([i \in 1..Len(s) |-> pairs[s[i]]], "&") : s \in IncSeqs(Len(pairs), k)}

K_account_id == S_account \o <<"[">> \o S_id \o <<"]">>
K_tags(i) == S_tags \o <<"[">> \o i \o <<"]">>
K_leads_id(i) == S_leads \o <<"[">> \o i \o <<"]", "[">> \o S_id \o <<"]">>
K_attrs(k) == S_attrs \o <<"[">> \o k \o <<"]">>

\* Keys of the bodies given to ParseForm: the tags and names of the fields
\* of Schema, the README's notation for nested fields, and keys with
\* unbalanced brackets or a second bracket group.
BindKeys ==
  << <<"a">>, S_Name, S_Email, <<"b">>, S_level,
     K_account_id,
     S_account \o <<"[">> \o S_id,
     K_tags(<<"0">>), K_tags(<<"1">>),
     K_tags(<<"0">>) \o <<"[", "1", "]">>,
     K_tags(<<"0">>) \o <<"[", "-", "1", "]">>,
     K_leads_id(<<"0">>),
     K_attrs(<<"k">>),
     S_attrs \o <<"[">> \o K_attrs(<<"k">>) >>

BindValues == << <<"x">>, <<"1", "2", "3">>, <<"3", "0", "0">> >>

\* key=value for every key and value of the pools, and one pair whose
\* value is a malformed percent escape.
BindPairs ==
  [n \in 1..(Len(BindKeys) * Len(BindValues)) |->
     BindKeys[((n - 1) \div Len(BindValues)) + 1] \o <<"=">> \o
     BindValues[((n - 1) % Len(BindValues)) + 1]]
  \o << <<"b", "=", "%", "z", "z">> >>

InitCall(bodies) ==
  /\ pc = "input"
  /\ call = "none"
  /\ arg \in bodies
  /\ ret = NilV
  /\ values = <<>>
  /\ pending = {}
  /\ groups = <<>>
  /\ result = <<>>
  /\ target = ZeroTarget
  /\ fld = 0

InitText(bodies) == InitCall(bodies) /\ other = NilV

InitBind == InitText(Bodies(BindPairs, MaxBindPairs))

\* values, err := url.ParseQuery(formData), the first statement of
\* ParseForm, FormToMap and FormToJSON
ParseQueryCall ==
  /\ pc = "input"
  /\ call = "none"
  /\ values' = ParseQuery(arg).values
  /\ ret' = ParseQuery(arg).err
  /\ pc' = "decode"
  /\ UNCHANGED <<call, pending, groups, result, target, fld, arg, other>>

NextBind ==
  \/ ParseQueryCall
  \/ ParseForm
  \/ parseStruct

SpecBind == InitBind /\ [][NextBind]_vars

(***************************************************************************)
(* ParseForm on destinations of every kind: a pointer to a zero struct, a  *)
(* pointer to a struct whose fields all hold values, and the arguments     *)
(* parseIntoStruct rejects.                                                *)
(***************************************************************************)
MaxDestPairs == 2    \* pairs in one raw form body

\* A destination struct every field of which holds a value.
FilledTarget ==
  << StrV(<<"o">>), IntKV("int", 7), StrV(<<"e">>), IntKV("int8", 5),
     StructV(<< IntKV("int", 9) >>),
     SliceV(<< StrV(<<"t">>) >>),
     SliceV(<< StructV(<< IntKV("int", 3) >>) >>),
     MapV(<<"k">> :> IntKV("int", 1)) >>

Destinations ==
  { ZeroTarget, FilledTarget,
    NilPointer, NonPointer(ZeroTarget), PointerTo(IntKV("int", 7)) }

\* Pairs for the scalar fields, with values that convert and values that
\* do not, keys that only begin like a lookup name, nested keys, and the
\* malformed pair.
DestPairs ==
  << <<"a", "=", "x">>,
     <<"a", "b", "=", "x">>,
     <<"b", "=", "1", "2", "3">>,
     <<"b", "=", "x">>,
     <<"b", "[", "c", "]", "=", "1">>,
     S_Email \o <<"=", "x">>,
     S_level \o <<"=", "3", "0", "0">>,
     K_tags(<<"0">>) \o <<"[", "1", "]", "=", "x">>,
     S_attrs \o <<"[">> \o K_attrs(<<"k">>) \o <<"=", "1", "2", "3">>,
     <<"b", "=", "%", "z", "z">> >>

InitDest ==
  /\ pc = "input"
  /\ call = "none"
  /\ arg \in Bodies(DestPairs, MaxDestPairs)
  /\ ret = NilV
  /\ values = <<>>
  /\ pending = {}
  /\ groups = <<>>
  /\ result = <<>>
  /\ target \in Destinations
  /\ fld = 0
  /\ other = NilV

NextDest ==
  \/ ParseQueryCall
  \/ ParseForm
  \/ parseStruct

SpecDest == InitDest /\ [][NextDest]_vars

(***************************************************************************)
(* The generic entry points and the encoded front-ends on raw text: form   *)
(* bodies as above and blocks of key = value lines.                        *)
(***************************************************************************)
MaxLines == 2        \* pairs in one raw body, lines in one block

Blocks(lines, k) ==
  {Join([i \in 1..Len(s) |-> lines[s[i]]], "\n") : s \in IncSeqs(Len(lines), k)}

\* Pairs of the bodies: a bare key, a nested key, a nested key with its
\* brackets percent-encoded, two pairs joined by the Unicode escape of &,
\* a value that converts to NaN and a malformed percent escape.
TextPairs ==
  << <<"a", "=", "1">>,
     <<"a", "[", "b", "]", "=", "x">>,
     <<"a", "%", "5", "B", "c", "%", "5", "D", "=", "1">>,
     <<"b", "=", "x", "\\", "u", "0", "0", "2", "6", "c", "=", "1">>,
     <<"d", "[", "0", "]", "[", "b", "]", "=", "n", "a", "n">>,
     <<"b", "=", "%", "z", "z">> >>

\* Lines of the blocks, each with the key and the value it writes: the
\* README's key = value lines, one of them with spaces around it.
TextLines ==
  << [key |-> <<"a">>, value |-> <<"1">>,
      text |-> <<"a", " ", "=", " ", "1">>],
     [key |-> <<"a", "[", "b", "]">>, value |-> <<"x">>,
      text |-> <<"a", "[", "b", "]", " ", "=", " ", "x">>],
     [key |-> <<"a", "[", "c", "]">>, value |-> <<"1">>,
      text |-> <<"a", "[", "c", "]", " ", "=", " ", "1">>],
     [key |-> <<"b">>, value |-> <<"x">>,
      text |-> <<" ", "b", " ", "=", " ", "x", " ">>],
     [key |-> <<"c", "[", "0", "]">>, value |-> <<"1">>,
      text |-> <<"c", "[", "0", "]", " ", "=", " ", "1">>] >>

TextInputs ==
  Bodies(TextPairs, MaxLines)
  \cup Blocks([i \in 1..Len(TextLines) |-> TextLines[i].text], MaxLines)

InitRaw == InitText(TextInputs)

\* FormToMapEncoded: unescapeUnicode, url.QueryUnescape, and the
\* url.ParseQuery of the FormToMap it calls on the decoded data
FormToMapEncoded ==
  /\ pc = "input"
  /\ call' = "FormToMapEncoded"
  /\ LET unescapedData == unescapeUnicode(arg)
     IN  IF ~QueryUnescapeOk(unescapedData)
         THEN /\ pc' = "error"
              /\ ret' = ErrV("failed to URL decode data")
              /\ UNCHANGED values
         ELSE LET decodedData == QueryUnescape(unescapedData)
              IN  /\ values' = ParseQuery(decodedData).values
                  /\ ret' = ParseQuery(decodedData).err
                  /\ pc' = "decode"
  /\ UNCHANGED <<pending, groups, result, target, fld, arg, other>>

\* FormToJSONEncoded: unescapeUnicode, url.QueryUnescape,
\* normalizeFormData, and the url.ParseQuery of the FormToJSON it calls
\* on the normalized data
FormToJSONEncoded ==
  /\ pc = "input"
  /\ call' = "FormToJSONEncoded"
  /\ LET unescapedData == unescapeUnicode(arg)
     IN  IF ~QueryUnescapeOk(unescapedData)
         THEN /\ pc' = "error"
              /\ ret' = ErrV("failed to URL decode data")
              /\ UNCHANGED values
         ELSE LET formData == normalizeFormData(QueryUnescape(unescapedData))
              IN  /\ values' = ParseQuery(formData).values
                  /\ ret' = ParseQuery(formData).err
                  /\ pc' = "decode"
  /\ UNCHANGED <<pending, groups, result, target, fld, arg, other>>

\* FormToJSON, after url.ParseQuery returned values and ret (its err); the
\* call may be the one FormToJSONEncoded makes.
FormToJSON ==
  /\ pc = "decode"
  /\ call \in {"none", "FormToJSONEncoded"}
  /\ call' = IF call = "none" THEN "FormToJSON" ELSE call
  /\ IF ret # NilV
     THEN /\ pc' = "error"
          /\ ret' = ErrV("failed to parse form data")
          /\ UNCHANGED pending
     ELSE /\ pc' = "group"
          /\ pending' = DOMAIN values
          /\ UNCHANGED ret
  /\ UNCHANGED <<values, groups, result, target, fld, arg, other>>

\* parseFormFlexibly after the grouping, json.MarshalIndent and the return
\* of FormToJSON
FormToJSONReturn ==
  /\ pc = "group"
  /\ call \in {"FormToJSON", "FormToJSONEncoded"}
  /\ pending = {}
  /\ IF parseFormFlexiblyPanics(groups)
     THEN pc' = "panic" /\ UNCHANGED <<result, ret>>
     ELSE IF ~MarshalOk(ObjV(parseFormFlexibly(groups)))
     THEN /\ pc' = "error"
          /\ ret' = ErrV("failed to marshal to JSON")
          /\ UNCHANGED result
     ELSE /\ pc' = "done"
          /\ result' = MarshalIndent(parseFormFlexibly(groups))
          /\ UNCHANGED ret
  /\ UNCHANGED <<call, values, pending, groups, target, fld, arg, other>>

NextRaw ==
  \/ ParseQueryCall
  \/ FormToMapEncoded
  \/ FormToJSONEncoded
  \/ FormToMap
  \/ FormToJSON
  \/ ParseForm
  \/ groupKeysByStructure
  \/ FormToMapReturn
  \/ FormToJSONReturn
  \/ parseStruct

SpecRaw == InitRaw /\ [][NextRaw]_vars

(***************************************************************************)
(* Two calls on one Parser.  Parser is struct{}: it has no field, and the  *)
(* package has no variable, so everything a call works on (its argument,   *)
(* the url.Values, the groups that groupKeysByStructure allocates, the     *)
(* result, the destination) belongs to that call.  The variables above are *)
(* the state of the running call; the scheduler suspends it and resumes    *)
(* the other call between any two steps.                                   *)
(***************************************************************************)
MaxParPairs == 2     \* pairs in the raw body of each of the two calls

ParPairs ==
  << <<"a", "[", "b", "]", "=", "x">>,
     <<"a", "[", "c", "]", "=", "1">>,
     <<"b", "=", "1">> >>

\* The state of the running call.
Running ==
  [pc |-> pc, call |-> call, values |-> values, pending |-> pending,
   groups |-> groups, result |-> result, target |-> target, fld |-> fld,
   arg |-> arg, ret |-> ret]

InitPar ==
  /\ InitCall(Bodies(ParPairs, MaxParPairs))
  /\ other \in [pc : {"input"}, call : {"none"}, values : {<<>>},
                pending : {{}}, groups : {<<>>}, result : {<<>>},
                target : {ZeroTarget}, fld : {0},
                arg : Bodies(ParPairs, MaxParPairs), ret : {NilV}]

\* A context switch that leaves the groups where they are, as if the two
\* calls built them in one map of the Parser.
SwitchSharedGroups ==
  /\ other # NilV
  /\ pc' = other.pc
  /\ call' = other.call
  /\ values' = other.values
  /\ pending' = other.pending
  /\ groups' = groups
  /\ result' = other.result
  /\ target' = other.target
  /\ fld' = other.fld
  /\ arg' = other.arg
  /\ ret' = other.ret
  /\ other' = Running

\* The scheduler suspends the running call and resumes the other one.
Switch ==
  /\ other # NilV
  /\ pc' = other.pc
  /\ call' = other.call
  /\ values' = other.values
  /\ pending' = other.pending
  /\ groups' = other.groups
  /\ result' = other.result
  /\ target' = other.target
  /\ fld' = other.fld
  /\ arg' = other.arg
  /\ ret' = other.ret
  /\ other' = Running

NextPar ==
  \/ Switch
  \/ ParseQueryCall
  \/ FormToMap
  \/ groupKeysByStructure
  \/ FormToMapReturn
  \/ ParseForm
  \/ parseStruct

SpecPar == InitPar /\ [][NextPar]_vars

(***************************************************************************)
(* Reading the output of FormToMap along the path of a raw key.            *)
(***************************************************************************)
IdxSeg(i) == [idx |-> TRUE, i |-> i, s |-> <<>>]
NameSeg(s) == [idx |-> FALSE, i |-> 0, s |-> s]
SegOf(s) == IF IsDigits(Unsigned(s)) THEN IdxSeg(AtoiVal(s)) ELSE NameSeg(s)

\* The path a raw key addresses: its base key and its segments.
KeyPath(key) ==
  LET p == parseKeyStructure(key)
  IN  [base |-> p.baseKey,
       segs |-> (IF p.isArray THEN <<IdxSeg(p.arrayIndex)>> ELSE <<>>)
                  \o [j \in 1..Len(p.path) |-> SegOf(p.path[j])]]

FormKeys == DOMAIN values

\* Every path that is a prefix of the path of some key of the corpus.
PrefixesOf(kp) ==
  { [base |-> kp.base, segs |-> SubSeq(kp.segs, 1, n)] : n \in 0..Len(kp.segs) }

Paths == UNION { PrefixesOf(KeyPath(k)) : k \in FormKeys }

StrictlyBelow(q, kp) ==
  /\ kp.base = q.base
  /\ Len(kp.segs) > Len(q.segs)
  /\ SubSeq(kp.segs, 1, Len(q.segs)) = q.segs

\* The segment by which the path kp leaves its prefix q.
NextSeg(q, kp) == kp.segs[Len(q.segs) + 1]

RECURSIVE Nav(_, _)
Nav(v, segs) ==
  IF segs = <<>> THEN v
  ELSE LET h == Head(segs)
       IN  IF h.idx
           THEN IF v.t = "array" /\ h.i >= 0 /\ h.i < Len(v.a)
                THEN Nav(v.a[h.i + 1], Tail(segs))
                ELSE AbsentV
           ELSE IF v.t = "object" /\ h.s \in DOMAIN v.m
                THEN Nav(v.m[h.s], Tail(segs))
                ELSE AbsentV

\* The value the output holds at a path, AbsentV when it holds none.
OutputAt(q) ==
  IF q.base \in DOMAIN result THEN Nav(result[q.base], q.segs) ELSE AbsentV

Returned(fn) == pc = "done" /\ call = fn

\* The keys of the corpus whose path is q, and the scalars they assign.
KeysAt(q) == {k \in FormKeys : KeyPath(k) = q}
HasChildKey(q) == \E k \in FormKeys : StrictlyBelow(q, KeyPath(k))

(***************************************************************************)
(* C1.  Original statement: when a node receives both a scalar assignment  *)
(* and a child assignment from the corpus, the output holds at that node   *)
(* an object or array built from the children, the scalar being dropped.   *)
(***************************************************************************)
C1_ChildrenWin ==
  Returned("FormToMap") =>
    \A k \in FormKeys :
      HasChildKey(KeyPath(k)) => OutputAt(KeyPath(k)).t \in {"array", "object"}

\* C1, as the code has it: a node that receives both a scalar assignment
\* and a child assignment is materialized, wherever the output holds it,
\* as the scalar of one of the keys that address it; the children are
\* dropped.
C1_ScalarWins ==
  Returned("FormToMap") =>
    \A k \in FormKeys :
      HasChildKey(KeyPath(k)) =>
        \/ OutputAt(KeyPath(k)) = AbsentV
        \/ \E k2 \in KeysAt(KeyPath(k)) :
             OutputAt(KeyPath(k)) \in
               {StrV(values[k2][1]), convertValueToType(values[k2][1])}

\* A nested node a[b] with a scalar and a child a[b][..], held by the output.
C1_Witness ==
  /\ Returned("FormToMap")
  /\ \E k \in FormKeys :
       /\ Len(KeyPath(k).segs) > 0
       /\ HasChildKey(KeyPath(k))
       /\ OutputAt(KeyPath(k)) # AbsentV

(***************************************************************************)
(* C2.  For a corpus without bracket keys FormToMap returns a flat object  *)
(* with the keys of the corpus, each holding the coerced first value.      *)
(***************************************************************************)
NoBracketKeys ==
  \A k \in FormKeys : ~Contains(k, "[") /\ ~Contains(k, "]")

C2_FlatCoerced ==
  (Returned("FormToMap") /\ NoBracketKeys) =>
    /\ DOMAIN result = FormKeys
    /\ \A k \in FormKeys : result[k] = convertValueToType(values[k][1])

(***************************************************************************)
(* C3.  A leaf whose raw value is "0" or "1" is the integer 0 or 1 in the  *)
(* output, wherever it sits.                                               *)
(***************************************************************************)
ZeroOne == { <<"0">>, <<"1">> }

C3_ZeroOneAreIntegers ==
  Returned("FormToMap") =>
    \A k \in FormKeys :
      ( /\ \A k2 \in KeysAt(KeyPath(k)) : values[k2][1] \in ZeroOne
        /\ OutputAt(KeyPath(k)).t \notin {"absent", "array", "object"} )
      => \E k2 \in KeysAt(KeyPath(k)) :
           OutputAt(KeyPath(k)) = IntV(DigitVal(values[k2][1][1]))

(***************************************************************************)
(* C4.  convertValueToType returns the first conversion that succeeds in   *)
(* the order integer, float, boolean, string: a base-10 signed integer     *)
(* gives that integer, else a float gives the float, else a boolean        *)
(* literal gives the boolean, else the string comes back unchanged.        *)
(***************************************************************************)
IsInteger(s) == IsDigits(Unsigned(s))

C4_CoercionOrder ==
  (pc = "returned" /\ call = "convertValueToType") =>
    IF IsInteger(arg)
    THEN ret.t \in {"int", "int64"} /\ ret.n = AtoiVal(arg)
    ELSE IF ParseFloatOk(arg)
    THEN ret = FloatV(ParseFloatVal(arg))
    ELSE IF ParseBoolOk(arg)
    THEN ret = BoolV(ParseBoolVal(arg))
    ELSE ret = StrV(arg)

\* "1" is a boolean literal and an integer: it came back as the integer.
C4_Witness ==
  /\ pc = "returned" /\ call = "convertValueToType"
  /\ ParseBoolOk(arg) /\ IsInteger(arg)
  /\ ret = IntV(1)

(***************************************************************************)
(* C5.  Every array of the output is dense: its length is the largest      *)
(* supplied index plus one, every supplied index holds a value and every   *)
(* other slot holds the nil placeholder.                                   *)
(***************************************************************************)
\* The indices the corpus supplies below the path q.
IndicesAt(q) ==
  { NextSeg(q, KeyPath(k)).i :
      k \in {k2 \in FormKeys : /\ StrictlyBelow(q, KeyPath(k2))
                               /\ NextSeg(q, KeyPath(k2)).idx} }

\* The names the corpus supplies below the path q.
NamesAt(q) ==
  { NextSeg(q, KeyPath(k)).s :
      k \in {k2 \in FormKeys : /\ StrictlyBelow(q, KeyPath(k2))
                               /\ ~NextSeg(q, KeyPath(k2)).idx} }

C5_DenseArrays ==
  Returned("FormToMap") =>
    \A q \in Paths :
      OutputAt(q).t = "array" =>
        /\ IndicesAt(q) # {}
        /\ Len(OutputAt(q).a) = Max(IndicesAt(q)) + 1
        /\ \A j \in 1..Len(OutputAt(q).a) :
             (OutputAt(q).a[j] = NilV) <=> ((j - 1) \notin IndicesAt(q))

\* An array with a gap: index 3 alone gives four slots, three of them nil.
C5_Witness ==
  /\ Returned("FormToMap")
  /\ \E q \in Paths :
       /\ OutputAt(q).t = "array"
       /\ IndicesAt(q) = {3}
       /\ Len(OutputAt(q).a) = 4
       /\ OutputAt(q).a[1] = NilV
       /\ OutputAt(q).a[4] # NilV

(***************************************************************************)
(* C6.  For a corpus of well-formed keys of the forms b[k], b[i][k] and    *)
(* b[i][k][j], entries sharing a path prefix are aggregated into one       *)
(* node: with b[i][k] entries the output holds under b a sequence whose    *)
(* element i is an object with exactly the names supplied for index i,     *)
(* each name holding its coerced value or, for b[i][k][j], a nested        *)
(* sequence of coerced values; with b[k] entries only, b is an object.     *)
(***************************************************************************)
RenderSeg(seg) ==
  <<"[">> \o (IF seg.idx THEN Sprintf_d(seg.i) ELSE seg.s) \o <<"]">>

RECURSIVE RenderSegs(_)
RenderSegs(segs) ==
  IF segs = <<>> THEN <<>> ELSE RenderSeg(Head(segs)) \o RenderSegs(Tail(segs))

\* The key is its base followed by its bracket groups and nothing else,
\* and its indices are unsigned decimals without leading zeros.
WellFormed(k) ==
  /\ ~parseKeyStructure(k).panic
  /\ k = KeyPath(k).base \o RenderSegs(KeyPath(k).segs)
  /\ \A j \in 1..Len(KeyPath(k).segs) :
       KeyPath(k).segs[j].idx => KeyPath(k).segs[j].i >= 0

Shape(k) == [j \in 1..Len(KeyPath(k).segs) |-> KeyPath(k).segs[j].idx]

AggregateForms == { <<FALSE>>, <<TRUE, FALSE>>, <<TRUE, FALSE, TRUE>> }

AggregateCorpus ==
  \A k \in FormKeys : WellFormed(k) /\ Shape(k) \in AggregateForms

PathOf(base, segs) == [base |-> base, segs |-> segs]

KeysBelow(q) == {k \in FormKeys : StrictlyBelow(q, KeyPath(k))}

C6_Aggregation ==
  (Returned("FormToMap") /\ AggregateCorpus) =>
    \A b \in {KeyPath(k).base : k \in FormKeys} :
      IF IndicesAt(PathOf(b, <<>>)) # {}
      THEN /\ OutputAt(PathOf(b, <<>>)).t = "array"
           /\ \A i \in IndicesAt(PathOf(b, <<>>)) :
                LET el == PathOf(b, <<IdxSeg(i)>>)
                IN  /\ OutputAt(el).t = "object"
                    /\ DOMAIN OutputAt(el).m = NamesAt(el)
                    /\ \A n \in NamesAt(el) :
                         LET f == PathOf(b, <<IdxSeg(i), NameSeg(n)>>)
                         IN  IF KeysAt(f) # {}
                             THEN \E k \in KeysAt(f) :
                                    OutputAt(f) = convertValueToType(values[k][1])
                             ELSE /\ OutputAt(f).t = "array"
                                  /\ \A k \in KeysBelow(f) :
                                       OutputAt(KeyPath(k)) =
                                         convertValueToType(values[k][1])
      ELSE /\ OutputAt(PathOf(b, <<>>)).t = "object"
           /\ DOMAIN OutputAt(PathOf(b, <<>>)).m = NamesAt(PathOf(b, <<>>))
           /\ \A k \in KeysBelow(PathOf(b, <<>>)) :
                OutputAt(KeyPath(k)) = convertValueToType(values[k][1])

\* Three entries of one base: two names under one index, one of them a
\* nested sequence.
C6_Witness ==
  /\ Returned("FormToMap")
  /\ AggregateCorpus
  /\ Cardinality(FormKeys) = 3
  /\ \A k \in FormKeys : Len(Shape(k)) >= 2
  /\ \E k \in FormKeys : Shape(k) = <<TRUE, FALSE, TRUE>>
  /\ \E q \in Paths :
       /\ Len(q.segs) = 1
       /\ OutputAt(q).t = "object"
       /\ Cardinality(DOMAIN OutputAt(q).m) = 2

FirstValuesOnly == [k \in DOMAIN values |-> <<values[k][1]>>]

C8_FirstValueOnly ==
  [][ /\ (pc = "group" /\ pending' # pending) =>
           \E key \in pending :
             /\ pending' = pending \ {key}
             /\ groups' = groupKey(groups, key, <<values[key][1]>>)
      /\ (pc = "bind") =>
           target' \in parseStructField(FirstValuesOnly, target, fld)
    ]_vars

\* A call that returned on a corpus in which a key has two different values.
C8_Witness ==
  /\ pc = "done"
  /\ \E k \in FormKeys :
       /\ Len(values[k]) >= 2
       /\ values[k][2] # values[k][1]
       /\ \/ call = "FormToMap" /\ OutputAt(KeyPath(k)) = StrV(values[k][1])
          \/ call = "ParseForm" /\ target[1] = StrV(values[k][1])

(***************************************************************************)
(* C9.  A key with an opening bracket and no closing one, with a closing   *)
(* bracket and no opening one, or with empty brackets is parsed without a  *)
(* crash as a bare base name with no segments.                             *)
(***************************************************************************)
OpenNoClose(k) == Contains(k, "[") /\ ~Contains(k, "]")
CloseNoOpen(k) == Contains(k, "]") /\ ~Contains(k, "[")
EmptyBrackets(k) ==
  /\ Len(k) >= 2
  /\ k[Len(k) - 1] = "[" /\ k[Len(k)] = "]"
  /\ \A i \in 1..(Len(k) - 2) : k[i] \notin {"[", "]"}

C9_MalformedIsBare ==
  ( /\ pc = "returned" /\ call = "parseKeyStructure"
    /\ (OpenNoClose(arg) \/ CloseNoOpen(arg) \/ EmptyBrackets(arg)) )
  => /\ ~ret.panic
     /\ ~ret.isArray /\ ~ret.isNested
     /\ ret.path = <<>>

(***************************************************************************)
(* C10.  The first bracket group of a key is an array index exactly when   *)
(* its content is decimal digits only, and an array index is not negative. *)
(***************************************************************************)
BracketGroups(k) ==
  IF Contains(k, "[")
  THEN FindAllStringSubmatch(SubSeq(k, Index(k, "[") + 1, Len(k)))
  ELSE <<>>

C10_IndexIffDigits ==
  ( /\ pc = "returned" /\ call = "parseKeyStructure"
    /\ ~ret.panic
    /\ BracketGroups(arg) # <<>> )
  => /\ ret.isArray <=> IsDigits(BracketGroups(arg)[1])
     /\ ret.isArray => ret.arrayIndex >= 0

(***************************************************************************)
(* Reading the outcome of ParseForm.                                       *)
(***************************************************************************)
Bound == call = "ParseForm" /\ pc = "done"
FieldNo(tag) == CHOOSE i \in 1..Len(Schema) : lookupName(Schema[i]) = tag
HasKey(k) == k \in DOMAIN values
NestedKeys(name) == {k \in DOMAIN values : HasPrefix(k, Append(name, "["))}

(***************************************************************************)
(* C11.  After a decode without error, ParseForm on a pointer to a struct  *)
(* is still running or has returned, and the error it returns is nil.      *)
(***************************************************************************)
C11_ParseFormSucceeds ==
  (call = "ParseForm" /\ ParseQuery(arg).err = NilV)
  => /\ pc \in {"bind", "done"}
     /\ ret = NilV

(***************************************************************************)
(* C13.  A string field with a form tag holds the first value of the key   *)
(* equal to the tag, whether or not a key equal to its Go name is          *)
(* present; a string field without a tag holds the first value of the key  *)
(* equal to its Go name; without that key the field keeps its zero value.  *)
(***************************************************************************)
C13_AliasOrIdentifier ==
  Bound =>
    \A i \in 1..Len(Schema) :
      LET f == Schema[i]
          key == IF f.tag # <<>> THEN f.tag ELSE f.name
      IN  (f.type.kind = "string" /\ NestedKeys(key) = {})
          => target[i] = IF HasKey(key) THEN StrV(values[key][1])
                         ELSE StrV(<<>>)

\* Name, tagged a, after a body with different values under a and Name.
C13_Witness ==
  /\ Bound
  /\ HasKey(<<"a">>) /\ HasKey(S_Name)
  /\ values[<<"a">>][1] # values[S_Name][1]
  /\ target[FieldNo(<<"a">>)] = StrV(values[<<"a">>][1])

(***************************************************************************)
(* C14.  After a body with account[id]=v, v an integer, the ID field of    *)
(* the nested Account struct holds v.                                      *)
(***************************************************************************)
C14_NestedRecord ==
  (Bound /\ HasKey(K_account_id) /\ ParseIntOk(values[K_account_id][1]))
  => target[FieldNo(S_account)] =
       StructV(<<IntV(ParseIntVal(values[K_account_id][1]))>>)

(***************************************************************************)
(* C15.  After a body whose tags keys are all of the form tags[i], Tags    *)
(* has max(i)+1 elements, element i being the value of tags[i] or the      *)
(* empty string; after a body whose leads keys are all of the form         *)
(* leads[i][id], Leads has max(i)+1 elements, element i having the ID of   *)
(* leads[i][id] or being the zero struct.                                  *)
(***************************************************************************)
OneDigit == {<<d>> : d \in Digits}
DenseOver(keyOf(_), name, elem(_), zero) ==
  LET present == {i \in OneDigit : HasKey(keyOf(i))}
      len == Max({DigitsVal(i) : i \in present}) + 1
  IN  (present # {} /\ NestedKeys(name) = {keyOf(i) : i \in present})
      => target[FieldNo(name)] =
           SliceV([j \in 1..len |->
                     IF <<DigitChar(j - 1)>> \in present
                     THEN elem(values[keyOf(<<DigitChar(j - 1)>>)][1])
                     ELSE zero])

LeadOf(v) == StructV(<<IF ParseIntOk(v) THEN IntV(ParseIntVal(v)) ELSE IntV(0)>>)

C15_DenseSequence ==
  Bound =>
    /\ DenseOver(K_tags, S_tags, StrV, StrV(<<>>))
    /\ DenseOver(K_leads_id, S_leads, LeadOf, ZeroOf(LeadT))

(***************************************************************************)
(* C16.  After a body whose attrs keys are all of the form attrs[k] with   *)
(* no bracket in k, Attrs is the map with the entry k -> v for every       *)
(* attrs[k]=v with v an integer, and no other entry.                       *)
(***************************************************************************)
AttrKey(key) == SubSeq(key, Len(S_attrs) + 2, Len(key) - 1)
PlainAttr(key) ==
  /\ HasSuffix(key, <<"]">>)
  /\ ~Contains(AttrKey(key), "[") /\ ~Contains(AttrKey(key), "]")

C16_Mapping ==
  (Bound /\ NestedKeys(S_attrs) # {} /\ \A key \in NestedKeys(S_attrs) : PlainAttr(key))
  => LET coerced == {key \in NestedKeys(S_attrs) : ParseIntOk(values[key][1])}
     IN  /\ target[FieldNo(S_attrs)].t = "map"
         /\ DOMAIN target[FieldNo(S_attrs)].m = {StrV(AttrKey(key)) : key \in coerced}
         /\ \A key \in coerced :
              target[FieldNo(S_attrs)].m[StrV(AttrKey(key))]
                = IntV(ParseIntVal(values[key][1]))

(***************************************************************************)
(* C17.  After a body with level=v, the int8 field Level holds v when v    *)
(* is an integer from -128 to 127 and 0 otherwise.                         *)
(***************************************************************************)
C17_DeclaredWidth ==
  (Bound /\ HasKey(S_level) /\ NestedKeys(S_level) = {})
  => LET v == values[S_level][1]
     IN  target[FieldNo(S_level)] =
           IF ParseIntOk(v) /\ ParseIntVal(v) >= -128 /\ ParseIntVal(v) <= 127
           THEN IntKV("int8", ParseIntVal(v))
           ELSE IntKV("int8", 0)

(***************************************************************************)
(* C12.  When the raw body holds a malformed percent escape, FormToMap,    *)
(* FormToJSON and ParseForm return the error "failed to parse form data"   *)
(* with no result, and ParseForm leaves the destination as it was, also    *)
(* when other pairs of the body decoded.                                   *)
(***************************************************************************)
Malformed(text) ==
  \E i \in 1..Len(text) :
    /\ text[i] = "%"
    /\ ~(i + 2 <= Len(text) /\ text[i + 1] \in HexDigits /\ text[i + 2] \in HexDigits)

C12_DecodeFailureAborts ==
  (call \in {"FormToMap", "FormToJSON", "ParseForm"} /\ Malformed(arg))
  => /\ pc = "error"
     /\ ret = ErrV("failed to parse form data")
     /\ result = <<>>
     /\ target = ZeroTarget

\* ParseForm returned the error on a body whose pair a=1 decoded.
C12_Witness ==
  /\ call = "ParseForm"
  /\ pc = "error"
  /\ Malformed(arg)
  /\ HasKey(<<"a">>)
  /\ target = ZeroTarget

(***************************************************************************)
(* C19.  On a block of two or more key = value lines, FormToMapEncoded     *)
(* returns the map FormToMap returns on the pairs key=value joined with    *)
(* &, and FormToJSONEncoded returns the JSON text of that map.             *)
(***************************************************************************)
RECURSIVE groupAll(_, _, _)
groupAll(gs, vals, keys) ==
  IF keys = {} THEN gs
  ELSE LET key == CHOOSE key \in keys : TRUE
       IN  groupAll(groupKey(gs, key, vals[key]), vals, keys \ {key})

\* The map FormToMap returns on a body whose keys all group without panic.
MapOf(body) ==
  LET vals == ParseQuery(body).values
  IN  parseFormFlexibly(groupAll(<<>>, vals, DOMAIN vals))

BlockOf(s) == Join([i \in 1..Len(s) |-> TextLines[s[i]].text], "\n")
PairsOf(s) ==
  Join([i \in 1..Len(s) |->
          TextLines[s[i]].key \o <<"=">> \o TextLines[s[i]].value], "&")

Ended == pc \in {"done", "error", "panic"}

C19_MapFrontEnd ==
  \A s \in IncSeqs(Len(TextLines), MaxLines) :
    (Len(s) >= 2 /\ arg = BlockOf(s) /\ call = "FormToMapEncoded" /\ Ended)
    => pc = "done" /\ result = MapOf(PairsOf(s))

C19_JSONFrontEnd ==
  \A s \in IncSeqs(Len(TextLines), MaxLines) :
    (Len(s) >= 2 /\ arg = BlockOf(s) /\ call = "FormToJSONEncoded" /\ Ended)
    => pc = "done" /\ result = MarshalIndent(MapOf(PairsOf(s)))

C19_EncodedFrontEnds == C19_MapFrontEnd /\ C19_JSONFrontEnd

(***************************************************************************)
(* C18.  With two calls interleaved on one Parser, every step either is a  *)
(* step of the running call and leaves the suspended call as it is, or is  *)
(* a context switch that changes nothing in either call; and a call that   *)
(* returned holds a result that the same call returns when it runs alone   *)
(* on its input.                                                           *)
(***************************************************************************)
\* The groups groupKeysByStructure can build, over the orders in which the
\* loop can visit the keys.
RECURSIVE GroupingsOf(_, _, _)
GroupingsOf(gs, vals, keys) ==
  IF keys = {} THEN {gs}
  ELSE UNION {GroupingsOf(groupKey(gs, key, vals[key]), vals, keys \ {key}) :
                key \in keys}

\* The destinations parseStruct can leave, from field i on.
RECURSIVE BindingsOf(_, _, _)
BindingsOf(dest, vals, i) ==
  IF i > Len(Schema) THEN {dest}
  ELSE UNION {BindingsOf(d, vals, i + 1) : d \in parseStructField(vals, dest, i)}

SequentialOutcome(st) ==
  st.pc = "done" =>
    LET vals == ParseQuery(st.arg).values
    IN  /\ st.ret = NilV
        /\ st.call = "FormToMap" =>
             /\ st.result \in {parseFormFlexibly(gs) :
                                 gs \in GroupingsOf(<<>>, vals, DOMAIN vals)}
             /\ st.target = ZeroTarget
        /\ st.call = "ParseForm" =>
             /\ st.target \in BindingsOf(ZeroTarget, vals, 1)
             /\ st.result = <<>>

OwnStateOnly ==
  \/ other' = other
  \/ other' = Running /\ Running' = other

C18_Interleaving ==
  /\ [](SequentialOutcome(Running) /\ SequentialOutcome(other))
  /\ [][OwnStateOnly]_vars

\* Both calls are in the middle of their grouping loops, on different
\* bodies.
C18_Witness ==
  /\ other # NilV
  /\ arg # other.arg
  /\ pc = "group" /\ groups # <<>> /\ pending # {}
  /\ other.pc = "group" /\ other.groups # <<>> /\ other.pending # {}

(***************************************************************************)
(* C20.  While groupKeysByStructure folds the entries in, the nodes of the *)
(* groups are those of the paths and path prefixes of the keys folded in   *)
(* so far, index segments taken by their numeric value; and a step keeps   *)
(* every node there was, with its base key, its flags once set, and its    *)
(* children.                                                               *)
(***************************************************************************)
\* The segment sequences of the nodes at and below a node.
RECURSIVE NodeSegs(_)
NodeSegs(node) ==
  {<<>>}
  \cup UNION {{<<NameSeg(k)>> \o s : s \in NodeSegs(node.children[k])} :
                k \in DOMAIN node.children}
  \cup UNION {{<<IdxSeg(i)>> \o s : s \in NodeSegs(node.arrayData[i])} :
                i \in DOMAIN node.arrayData}

NodePaths(gs) ==
  UNION {{[base |-> b, segs |-> s] : s \in NodeSegs(gs[b])} : b \in DOMAIN gs}

RECURSIVE NodeBelow(_, _)
NodeBelow(node, segs) ==
  IF segs = <<>> THEN node
  ELSE IF Head(segs).idx THEN NodeBelow(node.arrayData[Head(segs).i], Tail(segs))
  ELSE NodeBelow(node.children[Head(segs).s], Tail(segs))

NodeAt(gs, q) == NodeBelow(gs[q.base], q.segs)

FoldedKeys == DOMAIN values \ pending

NodeKept(old, new) ==
  /\ new.baseKey = old.baseKey
  /\ old.isSimple => new.isSimple
  /\ old.isArray => new.isArray
  /\ old.isObject => new.isObject
  /\ DOMAIN old.children \subseteq DOMAIN new.children
  /\ DOMAIN old.arrayData \subseteq DOMAIN new.arrayData

NodesKept ==
  (pc = "group" /\ pc' # "panic") =>
    \A q \in NodePaths(groups) :
      /\ q \in NodePaths(groups')
      /\ NodeKept(NodeAt(groups, q), NodeAt(groups', q))

C20_OneNodePerPath ==
  /\ [](pc = "group" =>
          NodePaths(groups) = UNION {PrefixesOf(KeyPath(k)) : k \in FoldedKeys})
  /\ [][NodesKept]_vars

\* Two different keys with the same path, or with a common prefix below
\* the base key, have been folded in.
C20_Witness ==
  /\ pc = "group"
  /\ \E k1, k2 \in FoldedKeys :
       /\ k1 # k2
       /\ \E q \in PrefixesOf(KeyPath(k1)) \cap PrefixesOf(KeyPath(k2)) :
            Len(q.segs) >= 1
  /\ \E k1, k2 \in FoldedKeys : k1 # k2 /\ KeyPath(k1) = KeyPath(k2)

(***************************************************************************)
(* C21.  The map FormToMap returns is the same for every order in which    *)
(* the loop of groupKeysByStructure can visit the keys of the corpus:      *)
(* the map the call returned is the outcome of every visiting order.       *)
(***************************************************************************)
\* What FormToMap returns when the grouping left the groups gs.
OutcomeOf(gs) ==
  IF parseFormFlexiblyPanics(gs) THEN PanicV ELSE ObjV(parseFormFlexibly(gs))

\* The outcomes of FormToMap over the visiting orders of a corpus none of
\* whose keys panics in parseKeyStructure.
OutcomesOf(vals) ==
  {OutcomeOf(gs) : gs \in GroupingsOf(<<>>, vals, DOMAIN vals)}

C21_OrderIndependent ==
  (call = "FormToMap" /\ pc = "done") => OutcomesOf(values) = {ObjV(result)}

(***************************************************************************)
(* C22.  The value ParseForm binds to a scalar field is the same for every *)
(* order in which the entries findFieldData matched are visited: the value *)
(* the field holds after the call is the only one parseFieldValue can      *)
(* bind.                                                                   *)
(***************************************************************************)
ScalarFields ==
  {i \in 1..Len(Schema) : Schema[i].type.kind \notin {"struct", "slice", "map"}}

C22_OneBinding ==
  (call = "ParseForm" /\ pc = "done") =>
    \A i \in ScalarFields :
      {d[i] : d \in parseStructField(values, ZeroTarget, i)} = {target[i]}

(***************************************************************************)
(* C23.  No step of ParseForm changes a top-level field of the destination *)
(* struct for which the corpus holds no key equal to the field's lookup    *)
(* name and no key that starts with the lookup name followed by [.         *)
(***************************************************************************)
Corpus == ParseQuery(arg).values

Unmatched(i) ==
  LET name == lookupName(Schema[i])
  IN  \A k \in DOMAIN Corpus : k # name /\ ~HasPrefix(k, Append(name, "["))

C23_UnmatchedFieldsKept ==
  [][parseIntoStructError(target) = NilV =>
       /\ parseIntoStructError(target') = NilV
       /\ \A i \in 1..Len(Schema) : Unmatched(i) => target'[i] = target[i]]_vars

\* ParseForm returned on the filled destination: it bound a field, and a
\* field without a matching key holds its earlier value; one of the keys
\* only begins like the lookup name of such a field.
C23_Witness ==
  /\ call = "ParseForm"
  /\ pc = "done"
  /\ target # FilledTarget
  /\ \E i \in 1..Len(Schema) :
       /\ Unmatched(i)
       /\ target[i] = FilledTarget[i]
       /\ target[i] # ZeroTarget[i]
       /\ \E k \in DOMAIN Corpus : HasPrefix(k, lookupName(Schema[i]))

(***************************************************************************)
(* C25.  ParseForm with an argument that is not a non-nil pointer to a     *)
(* struct returns an error and never writes through the argument; after a  *)
(* decode that succeeded the error is the one of parseIntoStruct.          *)
(***************************************************************************)
InvalidTarget == parseIntoStructError(target) # NilV

C25_InvalidTargetRejected ==
  /\ []((call = "ParseForm" /\ InvalidTarget) =>
          /\ pc = "error"
          /\ ret = IF ParseQuery(arg).err = NilV
                   THEN parseIntoStructError(target)
                   ELSE ErrV("failed to parse form data"))
  /\ [][InvalidTarget => target' = target]_vars

\* ParseForm returned the error of parseIntoStruct on a body that decoded
\* and holds a key of a field.
C25_Witness ==
  /\ call = "ParseForm"
  /\ pc = "error"
  /\ target = NilPointer
  /\ ParseQuery(arg).err = NilV
  /\ <<"a">> \in DOMAIN values
  /\ ret = ErrV("target must be a non-nil pointer to struct")

(***************************************************************************)
(* C24.  Every key of every object in the map FormToMap returns is the     *)
(* base key or the content of a non-numeric bracket group of a key of the  *)
(* corpus; and every group that buildObjectFromGroup is called with has no *)
(* scalar and no array data.                                               *)
(***************************************************************************)
\* The keys of the objects in a generic value.
RECURSIVE ObjectKeys(_)
ObjectKeys(v) ==
  IF v.t = "object"
  THEN DOMAIN v.m \cup UNION {ObjectKeys(v.m[key]) : key \in DOMAIN v.m}
  ELSE IF v.t = "array"
  THEN UNION {ObjectKeys(v.a[i]) : i \in DOMAIN v.a}
  ELSE {}

SuppliedNames ==
  {KeyPath(k).base : k \in FormKeys}
  \cup UNION {{KeyPath(k).segs[j].s :
                 j \in {n \in 1..Len(KeyPath(k).segs) : ~KeyPath(k).segs[n].idx}} :
              k \in FormKeys}

\* The groups buildObjectFromGroup is called with while a group is built,
\* following the branches of parseFormFlexibly, buildArrayFromGroup and
\* buildObjectFromGroup.
RECURSIVE ObjectCalls(_, _)
ObjectCalls(node, top) ==
  LET below == UNION {ObjectCalls(node.children[key], FALSE) :
                        key \in DOMAIN node.children}
               \cup UNION {ObjectCalls(node.arrayData[index], FALSE) :
                             index \in DOMAIN node.arrayData}
      items == UNION {ObjectCalls(node.arrayData[index], FALSE) :
                        index \in DOMAIN node.arrayData}
  IN  IF node.isSimple THEN {}
      ELSE IF top
      THEN IF node.isArray THEN items ELSE {node} \cup below
      ELSE IF DOMAIN node.arrayData # {} THEN items
      ELSE IF DOMAIN node.children # {} THEN {node} \cup below
      ELSE {}

C24_NoSyntheticKeys ==
  /\ Returned("FormToMap") => ObjectKeys(ObjV(result)) \subseteq SuppliedNames
  /\ (pc = "group" /\ pending = {}) =>
       \A baseKey \in DOMAIN groups :
         \A node \in ObjectCalls(groups[baseKey], TRUE) :
           ~node.isSimple /\ DOMAIN node.arrayData = {}

\* The returned map holds an object built from a group one of whose
\* children has children of its own together with a scalar or with array
\* data.
C24_Witness ==
  /\ Returned("FormToMap")
  /\ \E baseKey \in DOMAIN result :
       /\ result[baseKey].t = "object"
       /\ \E key \in DOMAIN groups[baseKey].children :
            LET child == groups[baseKey].children[key]
            IN  /\ DOMAIN child.children # {}
                /\ child.isSimple \/ DOMAIN child.arrayData # {}

====
